---- MODULE Spec2Model ----
(***************************************************************************)
(* Model of the podson feed parser (src/index.ts): the sax event handlers  *)
(* handleOpenTag / handleText / handleCloseTag, the finalizer              *)
(* finalizePodcast, the duration parser parseTime and getPodcast.          *)
(*                                                                         *)
(* JavaScript values are represented as follows.                           *)
(*   string            a sequence of one-character strings                 *)
(*   number            N(i) for the integer i, NaN for not-a-number        *)
(*   optional value    Undefined (<<>>) or Some(v) (<<v>>)                 *)
(*   Date              its time value, a number (NaN for an Invalid Date); *)
(*                     time values are counted in days since the epoch     *)
(*                     (every modelled date is a midnight UTC), which      *)
(*                     keeps the sign and the order of getTime()           *)
(***************************************************************************)
EXTENDS Integers, Sequences, FiniteSets, TLC

\* ------------------------------------------------------------------------
\* Bounds of the model
\* ------------------------------------------------------------------------
MaxTimeLen == 5     \* longest text handed to parseTime
MaxItems == 4       \* item elements of a document of the family "episodes"
ExtraOpens == 1     \* further elements of such a document
MaxDatedItems == 2  \* item elements of a document of the family "updated"
MaxChannelDates == 2 \* further elements of such a document
MaxCategories == 3  \* elements below the channel of the family "categories"
MaxDepth == 5       \* deepest nesting of the family "categories"
MaxOpens == 3       \* elements of a document of the family "general"
MaxMedia == 3       \* elements below rss, channel and the first item of a
                    \* document of the family "media"
MaxMediaItems == 2  \* item elements of such a document
MaxPairItems == 3   \* item elements of each document of the family "pair"
MaxFinalItems == 3  \* item elements of a document of the family "final"
MaxLegacyOpens == 6 \* elements of a document given to get of index.js
MaxOwnerOpens == 5  \* elements below the channel of the family "owner"
MaxFinalOpens == 7  \* elements below the channel of a document of the family
                    \* "final"
MaxTreeOpens == 4   \* elements below rss and channel of a document of the
                    \* family "tree"

\* ------------------------------------------------------------------------
\* JavaScript values
\* ------------------------------------------------------------------------
Undefined == <<>>
Some(v) == <<v>>
IsSet(o) == o # <<>>
Get(o) == o[1]

NaN == [nan |-> TRUE, n |-> 0]
N(i) == [nan |-> FALSE, n |-> i]
IsNaN(x) == x.nan
NumAdd(a, b) == IF a.nan \/ b.nan THEN NaN ELSE N(a.n + b.n)
NumSub(a, b) == IF a.nan \/ b.nan THEN NaN ELSE N(a.n - b.n)
NumMul(a, b) == IF a.nan \/ b.nan THEN NaN ELSE N(a.n * b.n)

Digits == <<"0", "1", "2", "3", "4", "5", "6", "7", "8", "9">>
IsDigit(c) == \E d \in 1..10 : Digits[d] = c
DigitVal(c) == (CHOOSE d \in 1..10 : Digits[d] = c) - 1
IsSpace(c) == c \in {" ", "\t", "\n"}

RECURSIVE Reverse(_)
Reverse(s) == IF s = <<>> THEN <<>> ELSE Append(Reverse(Tail(s)), Head(s))

RECURSIVE TrimStart(_)
TrimStart(s) ==
  IF s # <<>> /\ IsSpace(Head(s)) THEN TrimStart(Tail(s)) ELSE s

\* String.prototype.trim
Trim(s) == Reverse(TrimStart(Reverse(TrimStart(s))))

\* String.prototype.split(sep) for a one-character separator
RECURSIVE SplitFrom(_, _, _)
SplitFrom(s, sep, cur) ==
  IF s = <<>> THEN <<cur>>
  ELSE IF Head(s) = sep THEN <<cur>> \o SplitFrom(Tail(s), sep, <<>>)
  ELSE SplitFrom(Tail(s), sep, Append(cur, Head(s)))

Split(s, sep) == SplitFrom(s, sep, <<>>)

\* Array.prototype.join(sep) for an array of strings
RECURSIVE Join(_, _)
Join(parts, sep) ==
  IF parts = <<>> THEN <<>>
  ELSE IF Len(parts) = 1 THEN parts[1]
  ELSE parts[1] \o sep \o Join(Tail(parts), sep)

\* the value of the longest prefix of decimal digits of s, NaN when empty
RECURSIVE DigitPrefix(_, _, _)
DigitPrefix(s, acc, seen) ==
  IF s # <<>> /\ IsDigit(Head(s))
    THEN DigitPrefix(Tail(s), 10 * acc + DigitVal(Head(s)), TRUE)
    ELSE IF seen THEN N(acc) ELSE NaN

\* parseInt(text, 10): leading white space, an optional sign, then digits
ParseInt(text) ==
  LET s == TrimStart(text)
      neg == s # <<>> /\ Head(s) = "-"
      body == IF s # <<>> /\ Head(s) \in {"-", "+"} THEN Tail(s) ELSE s
      v == DigitPrefix(body, 0, FALSE)
  IN IF neg THEN NumMul(N(-1), v) ELSE v

\* ------------------------------------------------------------------------
\* parseTime
\* ------------------------------------------------------------------------
steps == <<60, 60, 24>>

\* steps[i] of the zero-based array; undefined (NaN in a product) past its end
StepAt(i) == IF i < Len(steps) THEN N(steps[i + 1]) ELSE NaN

\* let multiplier = 1; let i = index; while (i--) multiplier *= steps[i]
RECURSIVE Multiplier(_)
Multiplier(index) ==
  IF index = 0 THEN N(1) ELSE NumMul(Multiplier(index - 1), StepAt(index - 1))

ReduceStepResets(acc, val, index) ==
  LET parsed == ParseInt(val)
  IN IF IsNaN(parsed) THEN N(0)
     ELSE NumAdd(acc, NumMul(parsed, Multiplier(index)))

\* the reduce callback
ReduceStep(acc, val, index) ==
  LET parsed == ParseInt(val)
  IN IF IsNaN(parsed) THEN acc ELSE NumAdd(acc, NumMul(parsed, Multiplier(index)))

RECURSIVE Reduce(_, _, _)
Reduce(arr, acc, index) ==
  IF index >= Len(arr) THEN acc
  ELSE Reduce(arr, ReduceStep(acc, arr[index + 1], index), index + 1)

parseTime(text) ==
  IF text = <<>> THEN N(0)
  ELSE Reduce(Reverse(Split(text, ":")), N(0), 0)

\* ------------------------------------------------------------------------
\* parseLanguage and the Date constructor
\* ------------------------------------------------------------------------
UpperCase == <<"A", "B", "C", "D", "E", "F", "G", "H", "I", "J", "K", "L", "M",
               "N", "O", "P", "Q", "R", "S", "T", "U", "V", "W", "X", "Y", "Z">>
LowerCase == <<"a", "b", "c", "d", "e", "f", "g", "h", "i", "j", "k", "l", "m",
               "n", "o", "p", "q", "r", "s", "t", "u", "v", "w", "x", "y", "z">>
IsUpper(c) == \E i \in 1..26 : UpperCase[i] = c
IsLower(c) == \E i \in 1..26 : LowerCase[i] = c
ToLowerChar(c) ==
  IF IsUpper(c) THEN LowerCase[CHOOSE i \in 1..26 : UpperCase[i] = c] ELSE c
ToLowerCase(s) == [i \in 1..Len(s) |-> ToLowerChar(s[i])]

\* the character class \w
IsWord(c) == IsUpper(c) \/ IsLower(c) \/ IsDigit(c) \/ c = "_"

\* /\w\w-\w\w/i.test(text)
LanguagePattern(s) ==
  \E i \in 1..Len(s) :
    /\ i + 4 <= Len(s)
    /\ IsWord(s[i]) /\ IsWord(s[i + 1]) /\ s[i + 2] = "-"
    /\ IsWord(s[i + 3]) /\ IsWord(s[i + 4])

parseLanguage(text) ==
  LET lang == IF LanguagePattern(text) THEN text
              ELSE IF text = <<"e", "n">> THEN <<"e", "n", "-", "u", "s">>
              ELSE text \o <<"-">> \o text
  IN ToLowerCase(lang)

\* DayFromYear of ECMA-262, for the years the model uses (1969 and later)
DayFromYear(y) ==
  365 * (y - 1970) + ((y - 1969) \div 4) - ((y - 1901) \div 100)
    + ((y - 1601) \div 400)

\* new Date(text): a four-digit year text is the ISO form YYYY (midnight UTC
\* of 1 January); a text with no digit in it is no date at all.  Its time
\* value, in days.
IsYearText(s) == Len(s) = 4 /\ \A i \in 1..4 : IsDigit(s[i])
YearOf(s) ==
  1000 * DigitVal(s[1]) + 100 * DigitVal(s[2]) + 10 * DigitVal(s[3])
    + DigitVal(s[4])
DateParse(text) == IF IsYearText(text) THEN N(DayFromYear(YearOf(text))) ELSE NaN

Date(t) == [null |-> FALSE, time |-> t]
Null == [null |-> TRUE, time |-> N(0)]

\* ------------------------------------------------------------------------
\* The records under construction (src/types.ts)
\* ------------------------------------------------------------------------
\* const result: Podcast = { categories: [] }
NewResult ==
  [title |-> Undefined, link |-> Undefined, language |-> Undefined,
   subtitle |-> Undefined, summary |-> Undefined, description |-> Undefined,
   author |-> Undefined, ttl |-> Undefined, updated |-> Undefined,
   image |-> Undefined, owner |-> Undefined, episodes |-> Undefined,
   categories |-> Some(<<>>), feed |-> Undefined]

\* tmpEpisode = {} as Episode
NewEpisode ==
  [title |-> Undefined, subtitle |-> Undefined, guid |-> Undefined,
   description |-> Undefined, summary |-> Undefined, content |-> Undefined,
   published |-> Undefined, duration |-> Undefined, image |-> Undefined,
   enclosure |-> Undefined, chapters |-> Undefined, categories |-> Undefined]

\* const owner: Owner = {}
NewOwner == [name |-> Undefined, email |-> Undefined]

NoAttributes ==
  [text |-> Undefined, href |-> Undefined, length |-> Undefined,
   type |-> Undefined, url |-> Undefined, start |-> Undefined,
   title |-> Undefined]

\* an attribute value used as a condition: absent and "" are both falsy
Truthy(o) == IsSet(o) /\ Get(o) # <<>>

\* node.target refers to the result, to an owner object or to an episode
\* object; objects live in the heaps ownerObjs and episodeObjs
NoTarget == [kind |-> "none", id |-> 0]
ResultTarget == [kind |-> "result", id |-> 0]
OwnerTarget(i) == [kind |-> "owner", id |-> i]
EpisodeTarget(i) == [kind |-> "episode", id |-> i]

\* the three textMap literals: copy (true), rename (a string), fn (a function)
NoEntry == [kind |-> "none", key |-> ""]
Copy(name) == [kind |-> "copy", key |-> name]
Rename(key) == [kind |-> "rename", key |-> key]
Fn(key) == [kind |-> "fn", key |-> key]

ChannelTextMap(name) ==
  CASE name = "title" -> Copy(name)
    [] name = "link" -> Copy(name)
    [] name = "language" -> Fn("language")
    [] name = "itunes:subtitle" -> Rename("subtitle")
    [] name = "itunes:summary" -> Rename("summary")
    [] name = "description" -> Rename("description")
    [] name = "itunes:author" -> Rename("author")
    [] name = "ttl" -> Fn("ttl")
    [] name = "pubDate" -> Fn("updated")
    [] OTHER -> NoEntry

\* a table whose two entries store under the same key
OwnerTextMapOneKey(name) ==
  CASE name = "itunes:name" -> Rename("name")
    [] name = "itunes:email" -> Rename("name")
    [] OTHER -> NoEntry

OwnerTextMap(name) ==
  CASE name = "itunes:name" -> Rename("name")
    [] name = "itunes:email" -> Rename("email")
    [] OTHER -> NoEntry

ItemTextMap(name) ==
  CASE name = "title" -> Copy(name)
    [] name = "itunes:subtitle" -> Rename("subtitle")
    [] name = "guid" -> Copy(name)
    [] name = "description" -> Rename("description")
    [] name = "itunes:summary" -> Rename("summary")
    [] name = "pubDate" -> Fn("published")
    [] name = "itunes:duration" -> Fn("duration")
    [] name = "content:encoded" -> Rename("content")
    [] OTHER -> NoEntry

\* textMap is an object literal, so textMap[node.name] also finds what the
\* literal inherits from Object.prototype: for the element name valueOf the
\* entry is Object.prototype.valueOf, a function
ObjectPrototype(name) ==
  CASE name = "valueOf" -> [kind |-> "inherited", key |-> name]
    [] OTHER -> NoEntry

OwnTextMapEntry(map, name) ==
  CASE map = "channel" -> ChannelTextMap(name)
    [] map = "owner" -> OwnerTextMap(name)
    [] map = "item" -> ItemTextMap(name)
    [] OTHER -> NoEntry

TextMapEntry(map, name) ==
  IF OwnTextMapEntry(map, name) # NoEntry THEN OwnTextMapEntry(map, name)
  ELSE IF map \in {"channel", "owner", "item"} THEN ObjectPrototype(name)
  ELSE NoEntry

\* the value a transform entry merges into its target under its key
FnValue(key, text) ==
  CASE key = "language" -> Some(parseLanguage(text))
    [] key = "ttl" -> Some(ParseInt(text))
    [] key = "updated" -> Some(Date(DateParse(text)))
    [] key = "published" -> Some(Date(DateParse(text)))
    [] key = "duration" -> Some(parseTime(text))

\* ------------------------------------------------------------------------
\* The parser state of one parse() call and its event handlers.  A parser
\* state P is a record of the closure variables node (the chain of open
\* nodes, last element = current node), result and tmpEpisode (an index into
\* episodeObjs, 0 for undefined), with the heaps of the objects created.
\* ------------------------------------------------------------------------
NewParser ==
  [node |-> <<>>, result |-> NewResult, tmpEpisode |-> 0,
   episodeObjs |-> <<>>, ownerObjs |-> <<>>]

MakeNode(name, attributes, target, textMap) ==
  [name |-> name, attributes |-> attributes, target |-> target,
   textMap |-> textMap]

RECURSIVE WalkCategoriesLeafFirst(_, _, _)
WalkCategoriesLeafFirst(ancestors, i, path) ==
  IF i = 0 \/ ancestors[i].name # "itunes:category" THEN path
  ELSE WalkCategoriesLeafFirst(ancestors, i - 1,
         IF Truthy(ancestors[i].attributes.text)
           THEN Append(path, Get(ancestors[i].attributes.text))
           ELSE path)

\* the labels of the unbroken chain of itunes:category nodes that ends at
\* ancestors[i], root first, in front of path
RECURSIVE WalkCategories(_, _, _)
WalkCategories(ancestors, i, path) ==
  IF i = 0 \/ ancestors[i].name # "itunes:category" THEN path
  ELSE WalkCategories(ancestors, i - 1,
         IF Truthy(ancestors[i].attributes.text)
           THEN <<Get(ancestors[i].attributes.text)>> \o path
           ELSE path)

\* the string pushed for an itunes:category node with a non-empty label
CategoryPath(ancestors, attributes) ==
  Join(WalkCategories(ancestors, Len(ancestors), <<Get(attributes.text)>>),
       <<">">>)

\* only a category element that is not inside another one contributes
OpenCategoryOutermostOnly(P, attributes) ==
  IF Truthy(attributes.text)
       /\ (Len(P.node) < 2
             \/ P.node[Len(P.node) - 1].name # "itunes:category")
    THEN [P EXCEPT !.result.categories =
            Some(Append(Get(@), Get(attributes.text)))]
    ELSE P

OpenCategoryIfPresent(P, attributes) ==
  IF IsSet(attributes.text)
    THEN [P EXCEPT !.result.categories =
            Some(Append(Get(@),
                        Join(WalkCategories(P.node, Len(P.node) - 1,
                                            <<Get(attributes.text)>>),
                             <<">">>)))]
    ELSE P

\* the itunes:category branch of handleOpenTag; P.node already ends with the
\* new node, whose parent chain is the rest of P.node
OpenCategory(P, attributes) ==
  IF Truthy(attributes.text)
    THEN [P EXCEPT !.result.categories =
            Some(Append(Get(@),
                        CategoryPath(SubSeq(P.node, 1, Len(P.node) - 1),
                                     attributes)))]
    ELSE P

\* the enclosure object literal
MakeEnclosure(attributes) ==
  [filesize |-> IF Truthy(attributes.length)
                  THEN Some(ParseInt(Get(attributes.length)))
                  ELSE Undefined,
   type |-> attributes.type,
   url |-> attributes.url]

\* a chapter whose start is parsed without the truncation
MakeChapterWholeStart(attributes) ==
  [start |-> parseTime(Get(attributes.start)),
   title |-> Get(attributes.title)]

\* the psc:chapter object literal
MakeChapter(attributes) ==
  [start |-> parseTime(Split(Get(attributes.start), ".")[1]),
   title |-> Get(attributes.title)]

\* the else-if (tmpEpisode) branch of handleOpenTag
OpenInEpisodePrepends(P, name, attributes) ==
  LET e == P.tmpEpisode IN
  IF name = "itunes:image" THEN
    IF Truthy(attributes.href)
      THEN [P EXCEPT !.episodeObjs[e].image = attributes.href]
      ELSE P
  ELSE IF name = "enclosure" THEN
    [P EXCEPT !.episodeObjs[e].enclosure = Some(MakeEnclosure(attributes))]
  ELSE IF name = "psc:chapter" THEN
    IF Truthy(attributes.start) /\ Truthy(attributes.title)
      THEN [P EXCEPT !.episodeObjs[e].chapters =
              Some(<<MakeChapter(attributes)>>
                     \o (IF IsSet(@) THEN Get(@) ELSE <<>>))]
      ELSE P
  ELSE P

\* the episode image taken from a child of the item element only
OpenInEpisodeDirectOnly(P, name, attributes) ==
  LET e == P.tmpEpisode IN
  IF name = "itunes:image" THEN
    IF Truthy(attributes.href)
         /\ P.node[Len(P.node) - 1].target = EpisodeTarget(e)
      THEN [P EXCEPT !.episodeObjs[e].image = attributes.href]
      ELSE P
  ELSE IF name = "enclosure" THEN
    [P EXCEPT !.episodeObjs[e].enclosure = Some(MakeEnclosure(attributes))]
  ELSE IF name = "psc:chapter" THEN
    IF Truthy(attributes.start) /\ Truthy(attributes.title)
      THEN [P EXCEPT !.episodeObjs[e].chapters =
              Some(Append(IF IsSet(@) THEN Get(@) ELSE <<>>,
                          MakeChapter(attributes)))]
      ELSE P
  ELSE P

OpenInEpisode(P, name, attributes) ==
  LET e == P.tmpEpisode IN
  IF name = "itunes:image" THEN
    IF Truthy(attributes.href)
      THEN [P EXCEPT !.episodeObjs[e].image = attributes.href]
      ELSE P
  ELSE IF name = "enclosure" THEN
    [P EXCEPT !.episodeObjs[e].enclosure = Some(MakeEnclosure(attributes))]
  ELSE IF name = "psc:chapter" THEN
    IF Truthy(attributes.start) /\ Truthy(attributes.title)
      THEN [P EXCEPT !.episodeObjs[e].chapters =
              Some(Append(IF IsSet(@) THEN Get(@) ELSE <<>>,
                          MakeChapter(attributes)))]
      ELSE P
  ELSE P

handleOpenTag(P, name, attributes) ==
  LET plain == MakeNode(name, attributes, NoTarget, "none")
      pushed == [P EXCEPT !.node = Append(@, plain)]
      parent == P.node[Len(P.node)]
  IN
  IF P.node = <<>> THEN pushed
  ELSE IF name = "channel" THEN
    [P EXCEPT !.node =
       Append(@, MakeNode(name, attributes, ResultTarget, "channel"))]
  ELSE IF name = "itunes:image" /\ parent.name = "channel" THEN
    IF Truthy(attributes.href)
      THEN [pushed EXCEPT !.result.image = attributes.href]
      ELSE pushed
  ELSE IF name = "itunes:owner" /\ parent.name = "channel" THEN
    LET o == Len(P.ownerObjs) + 1 IN
    [P EXCEPT !.ownerObjs = Append(@, NewOwner),
              !.result.owner = Some(o),
              !.node = Append(@, MakeNode(name, attributes,
                                          OwnerTarget(o), "owner"))]
  ELSE IF name = "itunes:category" THEN
    OpenCategory(pushed, attributes)
  ELSE IF name = "item" /\ parent.name = "channel" THEN
    LET e == Len(P.episodeObjs) + 1 IN
    [P EXCEPT !.episodeObjs = Append(@, NewEpisode),
              !.tmpEpisode = e,
              !.node = Append(@, MakeNode(name, attributes,
                                          EpisodeTarget(e), "item"))]
  ELSE IF P.tmpEpisode # 0 THEN
    OpenInEpisode(pushed, name, attributes)
  ELSE pushed

handleCloseTagKeepsNode(P, name) ==
  IF P.tmpEpisode # 0 /\ name = "item"
    THEN [P EXCEPT
            !.result.episodes =
               Some(Append(IF IsSet(@) THEN Get(@) ELSE <<>>, P.tmpEpisode)),
            !.tmpEpisode = 0]
    ELSE P

handleCloseTag(P, name) ==
  LET popped == [P EXCEPT !.node = IF @ = <<>> THEN <<>>
                                   ELSE SubSeq(@, 1, Len(@) - 1)]
  IN
  IF P.tmpEpisode # 0 /\ name = "item"
    THEN [popped EXCEPT
            !.result.episodes =
               Some(Append(IF IsSet(@) THEN Get(@) ELSE <<>>, P.tmpEpisode)),
            !.tmpEpisode = 0]
    ELSE popped

\* target[key], and target[key] = value, through the reference
ReadTarget(P, target, key) ==
  CASE target.kind = "result" -> P.result[key]
    [] target.kind = "owner" -> P.ownerObjs[target.id][key]
    [] target.kind = "episode" -> P.episodeObjs[target.id][key]

WriteTarget(P, target, key, value) ==
  CASE target.kind = "result" -> [P EXCEPT !.result[key] = value]
    [] target.kind = "owner" -> [P EXCEPT !.ownerObjs[target.id][key] = value]
    [] target.kind = "episode" ->
         [P EXCEPT !.episodeObjs[target.id][key] = value]

\* the dispatch through node.parent.textMap
DispatchTextOverwrites(P, parent, name, trimmed) ==
  LET key == TextMapEntry(parent.textMap, name) IN
  IF parent.textMap = "none" \/ parent.target.kind = "none"
       \/ key.kind = "none" \/ key.kind = "inherited"
    THEN P
  ELSE IF key.kind = "fn"
    THEN WriteTarget(P, parent.target, key.key, FnValue(key.key, trimmed))
  ELSE WriteTarget(P, parent.target, key.key, Some(trimmed))

DispatchTextKeepsFirst(P, parent, name, trimmed) ==
  LET key == TextMapEntry(parent.textMap, name) IN
  IF parent.textMap = "none" \/ parent.target.kind = "none"
       \/ key.kind = "none" \/ key.kind = "inherited"
    THEN P
  ELSE IF key.kind = "fn"
    THEN IF IsSet(ReadTarget(P, parent.target, key.key)) THEN P
         ELSE WriteTarget(P, parent.target, key.key,
                          FnValue(key.key, trimmed))
  ELSE
    LET prevValue == ReadTarget(P, parent.target, key.key) IN
    WriteTarget(P, parent.target, key.key,
      IF Truthy(prevValue)
        THEN Some(Get(prevValue) \o <<" ">> \o trimmed)
        ELSE Some(trimmed))

DispatchText(P, parent, name, trimmed) ==
  LET key == TextMapEntry(parent.textMap, name) IN
  IF parent.textMap = "none" \/ parent.target.kind = "none"
       \/ key.kind = "none" \/ key.kind = "inherited"
    THEN P
  ELSE IF key.kind = "fn"
    THEN WriteTarget(P, parent.target, key.key, FnValue(key.key, trimmed))
  ELSE
    LET prevValue == ReadTarget(P, parent.target, key.key) IN
    WriteTarget(P, parent.target, key.key,
      IF Truthy(prevValue)
        THEN Some(Get(prevValue) \o <<" ">> \o trimmed)
        ELSE Some(trimmed))

\* the category text taken from a child of the item element only
EpisodeCategoryDirectOnly(P, name, trimmed) ==
  IF P.tmpEpisode # 0 /\ name = "category"
       /\ P.node[Len(P.node) - 1].target = EpisodeTarget(P.tmpEpisode)
    THEN [P EXCEPT !.episodeObjs[P.tmpEpisode].categories =
            Some(Append(IF IsSet(@) THEN Get(@) ELSE <<>>, trimmed))]
    ELSE P

\* if (tmpEpisode && node.name === 'category')
EpisodeCategory(P, name, trimmed) ==
  IF P.tmpEpisode # 0 /\ name = "category"
    THEN [P EXCEPT !.episodeObjs[P.tmpEpisode].categories =
            Some(Append(IF IsSet(@) THEN Get(@) ELSE <<>>, trimmed))]
    ELSE P

\* key(trimmed) with key = Object.prototype.valueOf is a call without a this
\* value: it throws a TypeError before anything is assigned
handleTextThrows(P, text) ==
  LET trimmed == Trim(text) IN
  /\ Len(trimmed) # 0
  /\ Len(P.node) >= 2
  /\ LET cur == P.node[Len(P.node)]
         parent == P.node[Len(P.node) - 1]
     IN /\ parent.textMap # "none"
        /\ parent.target.kind # "none"
        /\ TextMapEntry(parent.textMap, cur.name).kind = "inherited"

\* the text taken as it is, blank or not
handleTextUntrimmed(P, text) ==
  IF Len(P.node) < 2 THEN P
  ELSE
    LET cur == P.node[Len(P.node)]
        parent == P.node[Len(P.node) - 1]
    IN EpisodeCategory(DispatchText(P, parent, cur.name, text),
                       cur.name, text)

handleText(P, text) ==
  LET trimmed == Trim(text) IN
  IF Len(trimmed) = 0 \/ Len(P.node) < 2 THEN P
  ELSE
    LET cur == P.node[Len(P.node)]
        parent == P.node[Len(P.node) - 1]
    IN EpisodeCategory(DispatchText(P, parent, cur.name, trimmed),
                       cur.name, trimmed)

\* ------------------------------------------------------------------------
\* finalizePodcast
\* ------------------------------------------------------------------------
\* a.published ? a.published.getTime() : 0   (a Date object is always truthy)
SortKey(ep) == IF IsSet(ep.published) THEN Get(ep.published).time ELSE N(0)

\* the comparator (a, b) => bv - av as Array.prototype.sort reads it: a NaN
\* result counts as +0
SortCompare(a, b) ==
  LET v == NumSub(SortKey(b), SortKey(a)) IN IF IsNaN(v) THEN 0 ELSE v.n

\* ECMA-262 23.1.3.30: the comparator is consistent for a set of values
ConsistentComparator(S) ==
  \A a \in S, b \in S, c \in S :
    /\ (SortCompare(a, b) = 0 /\ SortCompare(b, c) = 0
          => SortCompare(a, c) = 0)
    /\ (SortCompare(a, b) < 0 /\ SortCompare(b, c) < 0
          => SortCompare(a, c) < 0)
    /\ (SortCompare(a, b) > 0 /\ SortCompare(b, c) > 0
          => SortCompare(a, c) > 0)

\* the stable sort of the index list ids by the comparator on objs
RECURSIVE InsertStable(_, _, _)
InsertStable(sorted, x, objs) ==
  IF sorted = <<>> THEN <<x>>
  ELSE IF SortCompare(objs[x], objs[Head(sorted)]) < 0
    THEN <<x>> \o sorted
    ELSE <<Head(sorted)>> \o InsertStable(Tail(sorted), x, objs)

RECURSIVE StableSort(_, _)
StableSort(ids, objs) ==
  IF ids = <<>> THEN <<>>
  ELSE InsertStable(StableSort(SubSeq(ids, 1, Len(ids) - 1), objs),
                    ids[Len(ids)], objs)

Reorderings(ids) ==
  LET n == Len(ids) IN
  { [i \in 1..n |-> ids[f[i]]] :
      f \in { g \in [1..n -> 1..n] : \A i, j \in 1..n : i # j => g[i] # g[j] } }

\* a sort that raises an error when the comparator returns NaN
SortOutcomesRejectsNaN(ids, objs) ==
  IF \E i \in 1..Len(ids) : IsNaN(SortKey(objs[ids[i]])) THEN {}
  ELSE { StableSort(ids, objs) }

\* result.episodes.sort(comparator): the stable sort when the comparator is
\* consistent for the episodes; with an inconsistent comparator (an Invalid
\* Date among values that differ) the order is implementation-defined
SortOutcomes(ids, objs) ==
  IF ConsistentComparator({ objs[ids[i]] : i \in 1..Len(ids) })
    THEN { StableSort(ids, objs) }
    ELSE Reorderings(ids)

\* the order of strings that Array.prototype.sort() uses without a
\* comparator: by UTF-16 code unit, a proper prefix first
CodeTable ==
  <<" ", "-", ".", "0", "1", "2", "3", "4", "5", "6", "7", "8", "9", ":", ">">>
    \o UpperCase \o <<"_">> \o LowerCase
Code(c) == CHOOSE i \in 1..Len(CodeTable) : CodeTable[i] = c

RECURSIVE StringLess(_, _)
StringLess(a, b) ==
  IF b = <<>> THEN FALSE
  ELSE IF a = <<>> THEN TRUE
  ELSE IF Head(a) = Head(b) THEN StringLess(Tail(a), Tail(b))
  ELSE Code(Head(a)) < Code(Head(b))

uniqKeepsAll(arr) == arr

\* lodash uniq: the first occurrence of each value, in order
RECURSIVE uniq(_)
uniq(arr) ==
  IF arr = <<>> THEN <<>>
  ELSE LET init == uniq(SubSeq(arr, 1, Len(arr) - 1))
           last == arr[Len(arr)]
       IN IF \E i \in 1..Len(init) : init[i] = last THEN init
          ELSE Append(init, last)

RECURSIVE InsertString(_, _)
InsertString(sorted, x) ==
  IF sorted = <<>> THEN <<x>>
  ELSE IF StringLess(x, Head(sorted)) THEN <<x>> \o sorted
  ELSE <<Head(sorted)>> \o InsertString(Tail(sorted), x)

\* Array.prototype.sort() of an array of strings
RECURSIVE SortStrings(_)
SortStrings(arr) ==
  IF arr = <<>> THEN <<>>
  ELSE InsertString(SortStrings(SubSeq(arr, 1, Len(arr) - 1)), arr[Len(arr)])

NormalizeCategoriesOmitEmpty(categories) ==
  IF ~IsSet(categories) \/ Get(categories) = <<>> THEN Undefined
  ELSE Some(SortStrings(uniq(Get(categories))))

\* result.categories = uniq(result.categories).sort()
NormalizeCategories(categories) ==
  Some(SortStrings(uniq(IF IsSet(categories) THEN Get(categories) ELSE <<>>)))

DefaultUpdatedFromEpisodes(updated, episodes, objs) ==
  IF IsSet(episodes) /\ Len(Get(episodes)) > 0
    THEN LET published == objs[Get(episodes)[1]].published
         IN Some(IF IsSet(published) THEN Get(published) ELSE Null)
    ELSE IF IsSet(updated) THEN updated ELSE Some(Null)

\* the default of result.updated, given the sorted episodes
DefaultUpdated(updated, episodes, objs) ==
  IF IsSet(updated) THEN updated
  ELSE IF IsSet(episodes) /\ Len(Get(episodes)) > 0
    THEN LET published == objs[Get(episodes)[1]].published
         IN Some(IF IsSet(published) THEN Get(published) ELSE Null)
    ELSE Some(Null)

\* the results finalizePodcast can return for the record of P
finalizePodcast(P) ==
  LET orders == IF IsSet(P.result.episodes)
                  THEN { Some(s) : s \in SortOutcomes(Get(P.result.episodes),
                                                      P.episodeObjs) }
                  ELSE { Undefined }
  IN { [P.result EXCEPT
          !.episodes = sorted,
          !.updated = DefaultUpdated(@, sorted, P.episodeObjs),
          !.categories = NormalizeCategories(@)] : sorted \in orders }

\* ------------------------------------------------------------------------
\* The event source: sax in strict mode delivers the open, text and close
\* events of a document and reports where it stops being well-formed.  The
\* documents are drawn from families ("general", "episodes", "updated",
\* "categories", "media", "tree", "final", "owner" and, for getPodcast, "get"), fixed by doc
\* at the start of the parse; the family "pair" is the documents of two
\* calls of parse whose events interleave.
\* ------------------------------------------------------------------------
\* an Error object: its name, its message (a sequence of the pieces it was
\* put together from) and its response property
JsError(name, message, response) ==
  [isError |-> TRUE, name |-> name, message |-> message,
   response |-> response]

\* the message of the TypeError of a call of Object.prototype.valueOf
\* without a this value
TypeErrorMessage == <<"Cannot convert undefined or null to object">>

\* the errors the parser reports inside write(): text before the root
\* element, and a close tag that does not match the open element
WriteErrors(n) ==
  IF n = <<>> THEN {<<"Non-whitespace before first tag.">>}
  ELSE {<<"Unexpected close tag">>}

\* no second parse call
NoPair == [runs |-> <<>>, engine |-> "none"]

\* no call of get of index.js
NoLegacy ==
  [pc |-> "none", node |-> <<>>, tmpEpisode |-> 0, dated |-> <<>>,
   episodes |-> <<>>, nOpen |-> 0, last |-> "none", calls |-> <<>>,
   logged |-> <<>>]

VARIABLES
  doc,          \* the family of the document being parsed
  pc,           \* "parsing", "resolved", "rejected"; "time", "timeDone"
  node,         \* the chain of open nodes, current node last
  result,       \* the Podcast record
  tmpEpisode,   \* index of the episode under construction, 0 when undefined
  episodeObjs,  \* the Episode objects created so far
  ownerObjs,    \* the Owner objects created so far
  ev,           \* the event handled last
  nOpen,        \* number of open events so far
  seen,         \* the names of the elements opened so far
  pre,          \* the record as it was handed to finalizePodcast
  timeIn,       \* argument of a direct call of parseTime
  timeOut,      \* its return value
  saxError,     \* parser.error: the message of the error the parser reported
  rejection,    \* the Error parse() rejected with
  feedUrl,      \* argument of getPodcast
  failure,      \* the Error the fetch rejected with
  thrown,       \* the message of the Error getPodcast threw
  returned,     \* the record getPodcast returned
  nClose,       \* number of close events so far
  pair,         \* two parse calls in progress at once
  legacy        \* a call of get of index.js (the callback API)

vars == <<doc, pc, node, result, tmpEpisode, episodeObjs, ownerObjs, ev,
          nOpen, seen, pre, timeIn, timeOut, saxError, rejection, feedUrl,
          failure, thrown, returned, nClose, pair, legacy>>

\* the variables of a getPodcast call
callVars == <<feedUrl, failure, thrown, returned>>

P == [node |-> node, result |-> result, tmpEpisode |-> tmpEpisode,
      episodeObjs |-> episodeObjs, ownerObjs |-> ownerObjs]

Becomes(Q) ==
  /\ node' = Q.node
  /\ result' = Q.result
  /\ tmpEpisode' = Q.tmpEpisode
  /\ episodeObjs' = Q.episodeObjs
  /\ ownerObjs' = Q.ownerObjs

Event(type, name, attributes, text) ==
  [type |-> type, name |-> name, attributes |-> attributes, text |-> text]
NoEvent == Event("none", "", NoAttributes, <<>>)

Tag(name, attributes) == [name |-> name, attributes |-> attributes]
Plain(name) == Tag(name, NoAttributes)

DateTexts ==
  { <<"1", "9", "6", "9">>, <<"1", "9", "7", "0">>, <<"2", "0", "2", "3">>,
    <<"2", "0", "2", "4">>, <<"x">> }
Labels == { Undefined, Some(<<>>), Some(<<"A">>), Some(<<"B">>) }
CategoryTags ==
  { Tag("itunes:category", [NoAttributes EXCEPT !.text = l]) : l \in Labels }
GeneralTags ==
  { Plain("rss"), Plain("channel"), Plain("item"), Plain("title"),
    Plain("category"), Plain("pubDate"), Plain("valueOf"),
    Tag("itunes:category", [NoAttributes EXCEPT !.text = Some(<<"A">>)]) }
GeneralTexts == { <<" ">>, <<" ", "x">>, <<"2", "0", "2", "4">> }

\* the family "media": enclosure and psc:chapter elements with every
\* combination of absent, empty, numeric and other attribute values, and a
\* ttl element
Lengths == { Undefined, Some(<<>>), Some(<<"1", "2">>), Some(<<"a">>) }
Types == { Undefined, Some(<<"m">>) }
EnclosureUrls == { Undefined, Some(<<"u">>) }
EnclosureTags ==
  { Tag("enclosure", [NoAttributes EXCEPT !.length = l, !.type = t,
                                          !.url = u]) :
      l \in Lengths, t \in Types, u \in EnclosureUrls }
Starts ==
  { Undefined, Some(<<>>), Some(<<"1", ":", "2", ".", "5">>),
    Some(<<"1", ".", "5", ":", "2">>), Some(<<"7">>) }
Titles == { Undefined, Some(<<>>), Some(<<"T">>), Some(<<"U">>) }
ChapterTags ==
  { Tag("psc:chapter", [NoAttributes EXCEPT !.start = st, !.title = ti]) :
      st \in Starts, ti \in Titles }
TtlTexts == { <<"6", "0">>, <<"a">> }

\* the family "tree": text elements, items and images at several depths
\* below the channel, items inside items, channels inside items
Image(href) == Tag("itunes:image", [NoAttributes EXCEPT !.href = href])
TreeTags(top) ==
  CASE top = "channel" ->
         { Plain("title"), Plain("ttl"), Plain("item"), Plain("div"),
           Image(Some(<<"A">>)) }
    [] top = "item" ->
         { Plain("title"), Plain("item"), Plain("div"), Plain("channel"),
           Image(Some(<<"B">>)), Image(Some(<<>>)), Image(Undefined),
           Tag("itunes:category", [NoAttributes EXCEPT !.text = Some(<<"A">>)]),
           Tag("enclosure", [NoAttributes EXCEPT !.url = Some(<<"u">>)]),
           Tag("psc:chapter", [NoAttributes EXCEPT !.start = Some(<<"7">>),
                                                   !.title = Some(<<"T">>)]) }
    [] top = "div" ->
         { Image(Some(<<"B">>)), Image(Some(<<>>)), Plain("category") }
    [] top = "title" -> { Plain("b") }
    [] OTHER -> {}
TreeTexts(top) ==
  CASE top = "title" -> { <<"a">>, <<" ", "b", " ">>, <<"\n", " ">> }
    [] top = "ttl" -> { <<"6", "0">>, <<"7">> }
    [] top = "category" -> { <<"a">>, <<" ">> }
    [] top \in {"b", "channel", "item", "div"} -> { <<"a">> }
    [] OTHER -> {}

\* the family "owner": owner elements under the channel and elsewhere, name
\* and email elements inside and outside an owner
OwnerTags(top) ==
  CASE top = "channel" ->
         { Plain("itunes:owner"), Plain("item"), Plain("itunes:name") }
    [] top = "itunes:owner" ->
         { Plain("itunes:name"), Plain("itunes:email"), Plain("div"),
           Plain("itunes:owner") }
    [] top = "div" -> { Plain("itunes:name") }
    [] top = "item" -> { Plain("itunes:owner") }
    [] OTHER -> {}
OwnerTexts(top) ==
  IF top \in {"itunes:name", "itunes:email"} THEN { <<"a">>, <<"b">> }
  ELSE IF top = "itunes:owner" THEN { <<"a">> }
  ELSE {}

\* the family "final": items dated, undated and unparsably dated, a
\* channel date and category labels that repeat
FinalTags(top) ==
  CASE top = "channel" ->
         { Plain("pubDate"), Plain("item"),
           Tag("itunes:category", [NoAttributes EXCEPT !.text = Some(<<"B">>)]),
           Tag("itunes:category", [NoAttributes EXCEPT !.text = Some(<<"A">>)]) }
    [] top = "item" -> { Plain("pubDate") }
    [] OTHER -> {}
FinalTexts == { <<"2", "0", "2", "4">>, <<"x">> }

TopName == IF node = <<>> THEN "" ELSE node[Len(node)].name

\* the families "episodes" and "updated" share a grammar (items and pubDate
\* elements in a channel) and differ in size
ItemLimit == IF doc = "updated" THEN MaxDatedItems ELSE MaxItems
OpenLimit ==
  IF doc = "updated" THEN 2 + 2 * MaxDatedItems + MaxChannelDates
  ELSE 2 + 2 * MaxItems + ExtraOpens

\* the elements that may open next
OpenChoices ==
  CASE doc \in {"episodes", "updated"} ->
         IF nOpen >= OpenLimit THEN {}
         ELSE IF node = <<>>
           THEN (IF nOpen = 0 THEN {Plain("rss"), Plain("channel")} ELSE {})
         ELSE IF TopName = "rss"
           THEN (IF ev.type = "open" THEN {Plain("channel")} ELSE {})
         ELSE IF TopName = "channel"
           THEN {Plain("pubDate")}
                  \cup (IF Len(episodeObjs) < ItemLimit THEN {Plain("item")}
                        ELSE {})
         ELSE IF TopName = "item" THEN {Plain("pubDate")}
         ELSE {}
    [] doc = "categories" ->
         IF nOpen >= 2 + MaxCategories \/ Len(node) >= MaxDepth THEN {}
         ELSE IF node = <<>>
           THEN (IF nOpen = 0 THEN {Plain("rss")} \cup CategoryTags ELSE {})
         ELSE IF TopName = "rss"
           THEN (IF ev.type = "open" THEN {Plain("channel")} ELSE {})
         ELSE IF TopName = "itunes:category"
           THEN CategoryTags \cup {Plain("div")}
         ELSE CategoryTags
    [] doc = "tree" ->
         IF nOpen >= 2 + MaxTreeOpens THEN {}
         ELSE IF node = <<>>
           THEN (IF nOpen = 0 THEN {Plain("rss")} ELSE {})
         ELSE IF TopName = "rss"
           THEN (IF ev.type = "open" THEN {Plain("channel")} ELSE {})
         ELSE TreeTags(TopName)
    [] doc = "owner" ->
         IF nOpen >= 2 + MaxOwnerOpens THEN {}
         ELSE IF node = <<>>
           THEN (IF nOpen = 0 THEN {Plain("rss"), Plain("channel")} ELSE {})
         ELSE IF TopName = "rss"
           THEN (IF ev.type = "open" THEN {Plain("channel")} ELSE {})
         ELSE OwnerTags(TopName)
    [] doc = "final" ->
         IF nOpen >= 2 + MaxFinalOpens THEN {}
         ELSE IF node = <<>>
           THEN (IF nOpen = 0 THEN {Plain("rss")} ELSE {})
         ELSE IF TopName = "rss"
           THEN (IF ev.type = "open" THEN {Plain("channel")} ELSE {})
         ELSE IF Len(episodeObjs) >= MaxFinalItems
           THEN FinalTags(TopName) \ {Plain("item")}
         ELSE FinalTags(TopName)
    [] doc = "media" ->
         IF nOpen >= 3 + MaxMedia THEN {}
         ELSE IF node = <<>>
           THEN (IF nOpen = 0 THEN {Plain("rss")} ELSE {})
         ELSE IF TopName = "rss"
           THEN (IF ev.type = "open" THEN {Plain("channel")} ELSE {})
         ELSE IF TopName = "channel"
           THEN (IF "ttl" \in seen THEN {} ELSE {Plain("ttl")})
                  \cup (IF Len(episodeObjs) < MaxMediaItems
                          THEN {Plain("item")} ELSE {})
                  \cup { Tag("psc:chapter",
                             [NoAttributes EXCEPT
                                !.start = Some(<<"1", ":", "2", ".", "5">>),
                                !.title = Some(<<"T">>)]) }
         ELSE IF TopName = "item"
           THEN EnclosureTags \cup ChapterTags \cup {Plain("psc:chapters")}
         ELSE IF TopName = "psc:chapters" THEN ChapterTags
         ELSE {}
    [] doc \in {"general", "get"} ->
         IF nOpen >= MaxOpens \/ (node = <<>> /\ nOpen > 0) THEN {}
         ELSE GeneralTags
    [] OTHER -> {}

\* the texts that may come next
TextChoices ==
  CASE doc \in {"episodes", "updated"} ->
         IF TopName = "pubDate" /\ ev.type = "open" THEN DateTexts ELSE {}
    [] doc = "categories" ->
         IF TopName = "div" /\ ev.type = "open" THEN {<<"x">>} ELSE {}
    [] doc = "tree" ->
         IF ev.type # "text" THEN TreeTexts(TopName) ELSE {}
    [] doc = "owner" ->
         IF ev.type # "text" THEN OwnerTexts(TopName) ELSE {}
    [] doc = "final" ->
         IF TopName = "pubDate" /\ ev.type = "open" THEN FinalTexts ELSE {}
    [] doc = "media" ->
         IF TopName = "ttl" /\ ev.type = "open" THEN TtlTexts ELSE {}
    [] doc \in {"general", "get"} ->
         IF node # <<>> /\ ev.type # "text" THEN GeneralTexts ELSE {}
    [] OTHER -> {}

InitParse(d) ==
  /\ doc = d
  /\ pc = "parsing"
  /\ node = NewParser.node
  /\ result = NewParser.result
  /\ tmpEpisode = NewParser.tmpEpisode
  /\ episodeObjs = NewParser.episodeObjs
  /\ ownerObjs = NewParser.ownerObjs
  /\ ev = NoEvent
  /\ nOpen = 0
  /\ seen = {}
  /\ pre = NewParser.result
  /\ timeIn = <<>>
  /\ timeOut = N(0)
  /\ saxError = Undefined
  /\ rejection = Undefined
  /\ feedUrl = ""
  /\ failure = Undefined
  /\ thrown = Undefined
  /\ returned = Undefined
  /\ nClose = 0
  /\ pair = NoPair
  /\ legacy = NoLegacy

\* parser.onopentag
OpenTag ==
  /\ pc = "parsing"
  /\ \E tag \in OpenChoices :
       /\ Becomes(handleOpenTag(P, tag.name, tag.attributes))
       /\ ev' = Event("open", tag.name, tag.attributes, <<>>)
       /\ seen' = seen \cup {tag.name}
  /\ nOpen' = nOpen + 1
  /\ UNCHANGED <<doc, pc, pre, timeIn, timeOut, saxError, rejection>>
  /\ UNCHANGED callVars
  /\ UNCHANGED <<nClose, pair, legacy>>

\* new Error(`Failed to parse podcast feed: ${errorMessage}`)
ParseError(errorMessage) ==
  JsError("Error", <<"Failed to parse podcast feed: ">> \o errorMessage,
          Undefined)

\* parser.ontext = parser.oncdata; what the handler throws leaves
\* parser.write and is caught by parse, which rejects
Text ==
  /\ pc = "parsing"
  /\ \E text \in TextChoices :
       /\ Becomes(handleText(P, text))
       /\ ev' = Event("text", TopName, NoAttributes, text)
       /\ IF handleTextThrows(P, text)
            THEN /\ pc' = "rejected"
                 /\ rejection' = Some(ParseError(TypeErrorMessage))
            ELSE UNCHANGED <<pc, rejection>>
  /\ UNCHANGED <<doc, nOpen, seen, pre, timeIn, timeOut, saxError>>
  /\ UNCHANGED callVars
  /\ UNCHANGED <<nClose, pair, legacy>>

\* parser.onclosetag: the current element closes
CloseTag ==
  /\ pc = "parsing"
  /\ node # <<>>
  /\ Becomes(handleCloseTag(P, TopName))
  /\ ev' = Event("close", TopName, NoAttributes, <<>>)
  /\ nClose' = nClose + 1
  /\ UNCHANGED <<doc, pc, nOpen, seen, pre, timeIn, timeOut, saxError,
                 rejection, pair, legacy>>
  /\ UNCHANGED callVars

\* parser.onend after the last element has closed: resolve(finalizePodcast)
EndUnfinalized ==
  /\ pc = "parsing"
  /\ node = <<>>
  /\ result' = result
  /\ pre' = result
  /\ pc' = "resolved"
  /\ ev' = Event("end", "", NoAttributes, <<>>)
  /\ UNCHANGED <<doc, node, tmpEpisode, episodeObjs, ownerObjs, nOpen,
                 seen, timeIn, timeOut, saxError, rejection>>
  /\ UNCHANGED callVars
  /\ UNCHANGED <<nClose, pair, legacy>>

End ==
  /\ pc = "parsing"
  /\ node = <<>>
  /\ \E r \in finalizePodcast(P) : result' = r
  /\ pre' = result
  /\ pc' = "resolved"
  /\ ev' = Event("end", "", NoAttributes, <<>>)
  /\ UNCHANGED <<doc, node, tmpEpisode, episodeObjs, ownerObjs, nOpen,
                 seen, timeIn, timeOut, saxError, rejection>>
  /\ UNCHANGED callVars
  /\ UNCHANGED <<nClose, pair, legacy>>

\* The input ends inside the root element.  The parser finds this out in
\* close(): it records the error in parser.error and, no onerror handler
\* being registered, goes on to emit the end event; nothing is written after
\* close(), so the recorded error is never thrown and parser.onend resolves.
EndUnclosed ==
  /\ pc = "parsing"
  /\ node # <<>>
  /\ \E r \in finalizePodcast(P) : result' = r
  /\ pre' = result
  /\ pc' = "resolved"
  /\ saxError' = Some(<<"Unclosed root tag">>)
  /\ ev' = Event("end", "", NoAttributes, <<>>)
  /\ UNCHANGED <<doc, node, tmpEpisode, episodeObjs, ownerObjs, nOpen,
                 seen, timeIn, timeOut, rejection>>
  /\ UNCHANGED callVars
  /\ UNCHANGED <<nClose, pair, legacy>>

\* The input is not well-formed at a place the parser reaches inside
\* write(): the error is recorded in parser.error, close() throws it and
\* parse rejects.
Fail ==
  /\ pc = "parsing"
  /\ \E m \in WriteErrors(node) :
       /\ saxError' = Some(m)
       /\ rejection' = Some(ParseError(m))
  /\ pc' = "rejected"
  /\ ev' = Event("error", "", NoAttributes, <<>>)
  /\ UNCHANGED <<doc, node, result, tmpEpisode, episodeObjs, ownerObjs,
                 nOpen, seen, pre, timeIn, timeOut>>
  /\ UNCHANGED callVars
  /\ UNCHANGED <<nClose, pair, legacy>>

Next == OpenTag \/ Text \/ CloseTag \/ End \/ EndUnclosed \/ Fail

Init == InitParse("general")
Spec == Init /\ [][Next]_vars

InitEpisodes == InitParse("episodes")
SpecEpisodes == InitEpisodes /\ [][Next]_vars

InitUpdated == InitParse("updated")
SpecUpdated == InitUpdated /\ [][Next]_vars

InitCategories == InitParse("categories")
SpecCategories == InitCategories /\ [][Next]_vars

InitTree == InitParse("tree")
SpecTree == InitTree /\ [][Next]_vars

InitOwner == InitParse("owner")
SpecOwner == InitOwner /\ [][Next]_vars

InitFinal == InitParse("final")
SpecFinal == InitFinal /\ [][Next]_vars

InitMedia == InitParse("media")
SpecMedia == InitMedia /\ [][Next]_vars

\* ------------------------------------------------------------------------
\* getPodcast: fetch the text behind feedUrl, parse it, stamp the record
\* ------------------------------------------------------------------------
Urls == {"https://a.example/feed.xml", "https://b.example/feed.xml"}
StatusCodes == {404, 500}
FailureNames == {"TimeoutError", "HTTPError", "RequestError"}
FailureMessages == {<<"Unknown network error">>, <<>>}
Responses ==
  {Undefined} \cup { Some([statusCode |-> Some(c)]) : c \in StatusCodes }

\* what got(...).text() rejects with: Error objects, a response attached to
\* those raised after the response arrived
FetchFailures ==
  { JsError(n, m, r) : n \in FailureNames, m \in FailureMessages,
                       r \in Responses }

\* the message of the Error the catch block of getPodcast throws
getPodcastCatchStatusFirst(error, url) ==
  IF IsSet(error.response) /\ IsSet(Get(error.response).statusCode)
    THEN <<"Failed to fetch podcast (HTTP ",
           ToString(Get(Get(error.response).statusCode)), "): ", url>>
  ELSE IF error.isError /\ error.name = "TimeoutError"
    THEN <<"Timeout fetching podcast feed: ", url>>
  ELSE <<"Failed to fetch podcast: ">>
         \o (IF error.isError THEN error.message ELSE <<"Unknown error">>)

getPodcastCatch(error, url) ==
  IF error.isError /\ error.name = "TimeoutError"
    THEN <<"Timeout fetching podcast feed: ", url>>
  ELSE IF IsSet(error.response) /\ IsSet(Get(error.response).statusCode)
    THEN <<"Failed to fetch podcast (HTTP ",
           ToString(Get(Get(error.response).statusCode)), "): ", url>>
  ELSE <<"Failed to fetch podcast: ">>
         \o (IF error.isError THEN error.message ELSE <<"Unknown error">>)

\* result.feed = feedUrl
StampNothing(r, url) == r

Stamp(r, url) == [r EXCEPT !.feed = Some(url)]

InitGet ==
  /\ doc = "get"
  /\ pc = "fetching"
  /\ node = NewParser.node
  /\ result = NewParser.result
  /\ tmpEpisode = NewParser.tmpEpisode
  /\ episodeObjs = NewParser.episodeObjs
  /\ ownerObjs = NewParser.ownerObjs
  /\ ev = NoEvent
  /\ nOpen = 0
  /\ seen = {}
  /\ pre = NewParser.result
  /\ timeIn = <<>>
  /\ timeOut = N(0)
  /\ saxError = Undefined
  /\ rejection = Undefined
  /\ feedUrl \in Urls
  /\ failure = Undefined
  /\ thrown = Undefined
  /\ returned = Undefined
  /\ nClose = 0
  /\ pair = NoPair
  /\ legacy = NoLegacy

parseVars == <<doc, node, result, tmpEpisode, episodeObjs, ownerObjs, ev,
               nOpen, seen, pre, timeIn, timeOut, saxError, rejection,
               nClose, pair, legacy>>

\* await got(feedUrl, ...).text() rejects: the catch block throws
GotRejects ==
  /\ pc = "fetching"
  /\ \E e \in FetchFailures :
       /\ failure' = Some(e)
       /\ thrown' = Some(getPodcastCatch(e, feedUrl))
  /\ pc' = "thrown"
  /\ UNCHANGED <<feedUrl, returned>>
  /\ UNCHANGED parseVars

\* await got(feedUrl, ...).text() resolves: parse(data) starts
GotResolves ==
  /\ pc = "fetching"
  /\ pc' = "parsing"
  /\ UNCHANGED callVars
  /\ UNCHANGED parseVars

\* await parse(data) resolves: result.feed = feedUrl; return result.
\* result keeps the record as parse resolved it.
Return ==
  /\ pc = "resolved"
  /\ returned' = Some(Stamp(result, feedUrl))
  /\ pc' = "returned"
  /\ UNCHANGED <<feedUrl, failure, thrown>>
  /\ UNCHANGED parseVars

\* await parse(data) rejects inside the try block: the catch block throws
Catch ==
  /\ pc = "rejected"
  /\ thrown' = Some(getPodcastCatch(Get(rejection), feedUrl))
  /\ pc' = "thrown"
  /\ UNCHANGED <<feedUrl, failure, returned>>
  /\ UNCHANGED parseVars

NextGet ==
  \/ GotRejects \/ GotResolves
  \/ OpenTag \/ Text \/ CloseTag \/ End \/ EndUnclosed \/ Fail
  \/ Return \/ Catch

SpecGet == InitGet /\ [][NextGet]_vars

\* ------------------------------------------------------------------------
\* Two parse calls at once.  Each call of parse creates its own result, node
\* and tmpEpisode (and its own parser); the events of the two documents are
\* interleaved in every order.  Array.prototype.sort is a function of its
\* input in any one engine: where the order is implementation-defined the
\* engine, fixed at the start, decides it.
\* ------------------------------------------------------------------------
Engines == {"keeps", "reverses"}

\* one call: its closure state, the events delivered to it so far, whether
\* it has resolved, and the record it resolved with
NewRun == [P |-> NewParser, log |-> <<>>, pc |-> "parsing",
           out |-> NewResult]

\* result.episodes.sort(comparator) in the engine e
EngineSort(e, ids, objs) ==
  IF ConsistentComparator({ objs[ids[i]] : i \in 1..Len(ids) })
    THEN StableSort(ids, objs)
  ELSE IF e = "keeps" THEN ids
  ELSE Reverse(ids)

\* finalizePodcast(result) in the engine e
finalizeIn(e, Q) ==
  CHOOSE r \in finalizePodcast(Q) :
    IsSet(Q.result.episodes) =>
      r.episodes = Some(EngineSort(e, Get(Q.result.episodes), Q.episodeObjs))

LastEvent(r) == IF r.log = <<>> THEN NoEvent ELSE r.log[Len(r.log)]
RunTop(r) == IF r.P.node = <<>> THEN "" ELSE r.P.node[Len(r.P.node)].name

\* the elements and texts that may come next in the document of a call:
\* items with a pubDate each, the date of the first item parsable or not
PairOpens(r) ==
  IF r.P.node = <<>> THEN (IF r.log = <<>> THEN {Plain("rss")} ELSE {})
  ELSE IF RunTop(r) = "rss"
    THEN (IF LastEvent(r).type = "open" THEN {Plain("channel")} ELSE {})
  ELSE IF RunTop(r) = "channel"
    THEN (IF Len(r.P.episodeObjs) < MaxPairItems THEN {Plain("item")}
          ELSE {})
  ELSE IF RunTop(r) = "item"
    THEN (IF LastEvent(r).type = "open" THEN {Plain("pubDate")} ELSE {})
  ELSE {}
PairTexts(r) ==
  IF LastEvent(r).type # "open" THEN {}
  ELSE IF RunTop(r) = "pubDate"
    THEN {<<"1", "9", "7", "0">>, <<"1", "9", "7", "1">>}
           \cup (IF Len(r.P.episodeObjs) = 1 THEN {<<"x">>} ELSE {})
  ELSE {}

\* the call i goes on as r, the other call is left alone
PairBecomesBoth(i, r) ==
  pair' = [pair EXCEPT !.runs[i] = r, !.runs[3 - i].P = r.P]

PairBecomes(i, r) == pair' = [pair EXCEPT !.runs[i] = r]

InitPair ==
  /\ doc = "pair"
  /\ pc = "pair"
  /\ node = NewParser.node
  /\ result = NewParser.result
  /\ tmpEpisode = NewParser.tmpEpisode
  /\ episodeObjs = NewParser.episodeObjs
  /\ ownerObjs = NewParser.ownerObjs
  /\ ev = NoEvent
  /\ nOpen = 0
  /\ seen = {}
  /\ pre = NewParser.result
  /\ timeIn = <<>>
  /\ timeOut = N(0)
  /\ saxError = Undefined
  /\ rejection = Undefined
  /\ feedUrl = ""
  /\ failure = Undefined
  /\ thrown = Undefined
  /\ returned = Undefined
  /\ nClose = 0
  /\ pair \in { [runs |-> <<NewRun, NewRun>>, engine |-> e] : e \in Engines }
  /\ legacy = NoLegacy

singleVars == <<doc, pc, node, result, tmpEpisode, episodeObjs, ownerObjs,
                ev, nOpen, seen, pre, timeIn, timeOut, saxError, rejection,
                feedUrl, failure, thrown, returned, nClose, legacy>>

PairOpen ==
  /\ pc = "pair"
  /\ \E i \in 1..2 :
       LET r == pair.runs[i] IN
       /\ r.pc = "parsing"
       /\ \E tag \in PairOpens(r) :
            PairBecomes(i, [r EXCEPT
              !.P = handleOpenTag(r.P, tag.name, tag.attributes),
              !.log = Append(@, Event("open", tag.name, tag.attributes,
                                      <<>>))])
  /\ UNCHANGED singleVars

PairText ==
  /\ pc = "pair"
  /\ \E i \in 1..2 :
       LET r == pair.runs[i] IN
       /\ r.pc = "parsing"
       /\ \E text \in PairTexts(r) :
            PairBecomes(i, [r EXCEPT
              !.P = handleText(r.P, text),
              !.log = Append(@, Event("text", RunTop(r), NoAttributes,
                                      text))])
  /\ UNCHANGED singleVars

PairClose ==
  /\ pc = "pair"
  /\ \E i \in 1..2 :
       LET r == pair.runs[i] IN
       /\ r.pc = "parsing"
       /\ r.P.node # <<>>
       /\ RunTop(r) \in {"item", "pubDate"} => LastEvent(r).type # "open"
       /\ PairBecomes(i, [r EXCEPT
            !.P = handleCloseTag(r.P, RunTop(r)),
            !.log = Append(@, Event("close", RunTop(r), NoAttributes,
                                    <<>>))])
  /\ UNCHANGED singleVars

\* a sort whose outcome on an inconsistent comparator varies from call to
\* call: the second call reorders where the first one keeps
PairEndPerCall ==
  /\ pc = "pair"
  /\ \E i \in 1..2 :
       LET r == pair.runs[i] IN
       /\ r.pc = "parsing"
       /\ r.P.node = <<>>
       /\ PairBecomes(i, [r EXCEPT
            !.pc = "resolved",
            !.out = finalizeIn(IF i = 1 THEN "keeps" ELSE "reverses", r.P)])
  /\ UNCHANGED singleVars

PairEnd ==
  /\ pc = "pair"
  /\ \E i \in 1..2 :
       LET r == pair.runs[i] IN
       /\ r.pc = "parsing"
       /\ r.P.node = <<>>
       /\ PairBecomes(i, [r EXCEPT
            !.pc = "resolved",
            !.out = finalizeIn(pair.engine, r.P)])
  /\ UNCHANGED singleVars

NextPair == PairOpen \/ PairText \/ PairClose \/ PairEnd
SpecPair == InitPair /\ [][NextPair]_vars

\* ------------------------------------------------------------------------
\* index.js: get(feedUrl, callback) and parse(feedXML, callback), the
\* callback API.  Of the record under construction the model keeps what
\* decides the control flow: the chain of open elements with their
\* dispatch tables, the episodes and whether each has a published date.
\* ------------------------------------------------------------------------
LegacyNode(name, textMap, target) ==
  [name |-> name, textMap |-> textMap, target |-> target]

\* node.parent.textMap[node.name] in index.js: an own entry that stores, the
\* pubDate entry of an item, or a function inherited from Object.prototype
LegacyEntry(map, name) ==
  CASE map = "channel"
         /\ name \in {"title", "link", "language", "itunes:subtitle",
                      "description", "ttl", "pubDate"} -> "stores"
    [] map = "owner" /\ name \in {"itunes:name", "itunes:email"} -> "stores"
    [] map = "item" /\ name = "pubDate" -> "published"
    [] map = "item"
         /\ name \in {"title", "guid", "itunes:summary",
                      "itunes:duration"} -> "stores"
    [] map # "none" /\ name = "valueOf" -> "inherited"
    [] OTHER -> "none"

\* parser.onopentag
LegacyOnOpenTag(L, name) ==
  LET plain == [L EXCEPT !.node = Append(@, LegacyNode(name, "none", 0))]
      parent == L.node[Len(L.node)]
  IN
  IF L.node = <<>> THEN plain
  ELSE IF name = "channel" THEN
    [L EXCEPT !.node = Append(@, LegacyNode(name, "channel", 0))]
  ELSE IF name = "itunes:owner" /\ parent.name = "channel" THEN
    [L EXCEPT !.node = Append(@, LegacyNode(name, "owner", 0))]
  ELSE IF name = "item" /\ parent.name = "channel" THEN
    LET e == Len(L.dated) + 1 IN
    [L EXCEPT !.dated = Append(@, FALSE),
              !.tmpEpisode = e,
              !.node = Append(@, LegacyNode(name, "item", e))]
  ELSE plain

\* parser.onclosetag
LegacyOnCloseTag(L, name) ==
  LET popped == [L EXCEPT !.node = SubSeq(@, 1, Len(@) - 1)] IN
  IF L.tmpEpisode # 0 /\ name = "item"
    THEN [popped EXCEPT !.episodes = Append(@, L.tmpEpisode),
                        !.tmpEpisode = 0]
    ELSE popped

LegacyTextEntry(L, text) ==
  IF Trim(text) = <<>> \/ Len(L.node) < 2 THEN "none"
  ELSE LegacyEntry(L.node[Len(L.node) - 1].textMap,
                   L.node[Len(L.node)].name)

\* parser.ontext: key(text) with an inherited function throws
LegacyOnTextThrows(L, text) == LegacyTextEntry(L, text) = "inherited"
LegacyOnText(L, text) ==
  IF LegacyTextEntry(L, text) = "published"
    THEN [L EXCEPT !.dated[L.node[Len(L.node) - 1].target] = TRUE]
    ELSE L

\* parser.onend: item2.published.getTime() in the comparator throws for an
\* episode without a published date as soon as there are two to compare
LegacyOnEndThrows(L) ==
  /\ Len(L.episodes) >= 2
  /\ \E i \in 1..Len(L.episodes) : ~L.dated[L.episodes[i]]

\* the callback parse hands its outcome to, inside get: an error is
\* logged and nothing else; a record is passed on to the caller's callback
LegacyParseCallback(L, err) ==
  IF err
    THEN [L EXCEPT !.pc = "done", !.logged = Append(@, "Parsing error")]
    ELSE [L EXCEPT !.pc = "done",
                   !.calls = Append(@, [err |-> FALSE, data |-> TRUE])]

LegacyTop(L) == IF L.node = <<>> THEN "" ELSE L.node[Len(L.node)].name
LegacyTags(L) ==
  IF L.nOpen >= MaxLegacyOpens THEN {}
  ELSE IF L.node = <<>> THEN (IF L.nOpen = 0 THEN {"rss"} ELSE {})
  ELSE IF LegacyTop(L) = "rss"
    THEN (IF L.last = "open" THEN {"channel"} ELSE {})
  ELSE IF LegacyTop(L) = "channel" THEN {"item", "title", "valueOf"}
  ELSE IF LegacyTop(L) = "item" THEN {"pubDate", "item"}
  ELSE {}
LegacyTexts(L) ==
  IF L.last # "open" THEN {}
  ELSE IF LegacyTop(L) \in {"pubDate", "title"} THEN {<<"x">>}
  ELSE IF LegacyTop(L) = "valueOf" THEN {<<"x">>, <<" ">>}
  ELSE {}

InitLegacy ==
  /\ doc = "legacy"
  /\ pc = "legacy"
  /\ node = NewParser.node
  /\ result = NewParser.result
  /\ tmpEpisode = NewParser.tmpEpisode
  /\ episodeObjs = NewParser.episodeObjs
  /\ ownerObjs = NewParser.ownerObjs
  /\ ev = NoEvent
  /\ nOpen = 0
  /\ seen = {}
  /\ pre = NewParser.result
  /\ timeIn = <<>>
  /\ timeOut = N(0)
  /\ saxError = Undefined
  /\ rejection = Undefined
  /\ feedUrl = ""
  /\ failure = Undefined
  /\ thrown = Undefined
  /\ returned = Undefined
  /\ nClose = 0
  /\ pair = NoPair
  /\ legacy = [NoLegacy EXCEPT !.pc = "requesting"]

modernVars == <<doc, pc, node, result, tmpEpisode, episodeObjs, ownerObjs,
                ev, nOpen, seen, pre, timeIn, timeOut, saxError, rejection,
                feedUrl, failure, thrown, returned, nClose, pair>>

\* request calls back with err: console.error and return
RequestErr ==
  /\ legacy.pc = "requesting"
  /\ legacy' = [legacy EXCEPT !.pc = "done",
                              !.logged = Append(@, "Network error")]
  /\ UNCHANGED modernVars

\* request calls back with the body: parse(data, ...)
RequestData ==
  /\ legacy.pc = "requesting"
  /\ legacy' = [legacy EXCEPT !.pc = "parsing"]
  /\ UNCHANGED modernVars

LegacyOpenTag ==
  /\ legacy.pc = "parsing"
  /\ \E name \in LegacyTags(legacy) :
       legacy' = [LegacyOnOpenTag(legacy, name) EXCEPT
                    !.nOpen = @ + 1, !.last = "open"]
  /\ UNCHANGED modernVars

\* what a handler throws leaves parser.write and reaches the catch block
\* of parse, which calls callback(error)
LegacyText ==
  /\ legacy.pc = "parsing"
  /\ \E text \in LegacyTexts(legacy) :
       legacy' =
         IF LegacyOnTextThrows(legacy, text)
           THEN LegacyParseCallback(legacy, TRUE)
           ELSE [LegacyOnText(legacy, text) EXCEPT !.last = "text"]
  /\ UNCHANGED modernVars

LegacyCloseTag ==
  /\ legacy.pc = "parsing"
  /\ legacy.node # <<>>
  /\ legacy' = [LegacyOnCloseTag(legacy, LegacyTop(legacy)) EXCEPT
                  !.last = "close"]
  /\ UNCHANGED modernVars

\* the document is not well-formed: the parser throws, callback(error)
LegacyFail ==
  /\ legacy.pc = "parsing"
  /\ legacy.node # <<>> \/ legacy.nOpen = 0
  /\ legacy' = LegacyParseCallback(legacy, TRUE)
  /\ UNCHANGED modernVars

\* parser.onend, reached also when the root element is left open
LegacyEnd ==
  /\ legacy.pc = "parsing"
  /\ legacy' = LegacyParseCallback(legacy, LegacyOnEndThrows(legacy))
  /\ UNCHANGED modernVars

NextLegacy ==
  \/ RequestErr \/ RequestData \/ LegacyOpenTag \/ LegacyText
  \/ LegacyCloseTag \/ LegacyFail \/ LegacyEnd
SpecLegacy == InitLegacy /\ [][NextLegacy]_vars

\* ------------------------------------------------------------------------
\* parseTime called directly on every text of a bounded alphabet
\* ------------------------------------------------------------------------
TimeChars == {"1", "2", ":", "a", "-"}
TimeTexts == UNION { [1..k -> TimeChars] : k \in 0..MaxTimeLen }

InitTime ==
  /\ doc = "none"
  /\ pc = "time"
  /\ node = NewParser.node
  /\ result = NewParser.result
  /\ tmpEpisode = NewParser.tmpEpisode
  /\ episodeObjs = NewParser.episodeObjs
  /\ ownerObjs = NewParser.ownerObjs
  /\ ev = NoEvent
  /\ nOpen = 0
  /\ seen = {}
  /\ pre = NewParser.result
  /\ timeIn \in TimeTexts
  /\ timeOut = N(0)
  /\ saxError = Undefined
  /\ rejection = Undefined
  /\ feedUrl = ""
  /\ failure = Undefined
  /\ thrown = Undefined
  /\ returned = Undefined
  /\ nClose = 0
  /\ pair = NoPair
  /\ legacy = NoLegacy

CallParseTime ==
  /\ pc = "time"
  /\ timeOut' = parseTime(timeIn)
  /\ pc' = "timeDone"
  /\ UNCHANGED <<doc, node, result, tmpEpisode, episodeObjs, ownerObjs, ev,
                 nOpen, seen, pre, timeIn, saxError, rejection>>
  /\ UNCHANGED callVars
  /\ UNCHANGED <<nClose, pair, legacy>>

NextTime == CallParseTime
SpecTime == InitTime /\ [][NextTime]_vars

\* ------------------------------------------------------------------------
\* Properties
\* ------------------------------------------------------------------------
Resolved == pc = "resolved"
NumEpisodes == IF IsSet(result.episodes) THEN Len(Get(result.episodes)) ELSE 0
EpisodeAt(i) == episodeObjs[Get(result.episodes)[i]]
Undated(ep) == ~IsSet(ep.published)
\* the episode carries a published timestamp: a pubDate that is a date
HasTimestamp(ep) == IsSet(ep.published) /\ ~IsNaN(Get(ep.published).time)
TimeOf(ep) == Get(ep.published).time.n

\* C1: after a successful parse, of any two episodes that both carry a
\* published timestamp the one with the later timestamp comes earlier in the
\* episodes list, whatever undated or unparsably dated episodes lie between.
C1_NewestFirst ==
  Resolved =>
    \A i \in 1..NumEpisodes, j \in 1..NumEpisodes :
      (i < j /\ HasTimestamp(EpisodeAt(i)) /\ HasTimestamp(EpisodeAt(j)))
        => TimeOf(EpisodeAt(i)) >= TimeOf(EpisodeAt(j))

\* C2: in the finalized episodes list every episode that has a published
\* timestamp comes before every episode that has none, for every value of
\* the timestamps.
C2_UndatedLast ==
  Resolved =>
    \A i \in 1..NumEpisodes, j \in 1..NumEpisodes :
      (i < j /\ HasTimestamp(EpisodeAt(j))) => ~Undated(EpisodeAt(i))

\* C3: the episode sort is stable: two episodes with equal published
\* timestamps, or both without one, keep the order in which their item
\* elements were encountered (the order of creation of their objects).
SameSortRank(a, b) ==
  \/ Undated(a) /\ Undated(b)
  \/ HasTimestamp(a) /\ HasTimestamp(b) /\ TimeOf(a) = TimeOf(b)

C3_StableSort ==
  Resolved =>
    \A i \in 1..NumEpisodes, j \in 1..NumEpisodes :
      (i < j /\ SameSortRank(EpisodeAt(i), EpisodeAt(j)))
        => Get(result.episodes)[i] < Get(result.episodes)[j]

\* C4: when the channel carries no pubDate, the finalized updated field is
\* the most recent published timestamp among all episodes, and null when
\* there is no episode or no episode has a published timestamp.
DatedPositions == { i \in 1..NumEpisodes : HasTimestamp(EpisodeAt(i)) }
AllUndated == \A i \in 1..NumEpisodes : Undated(EpisodeAt(i))

C4_UpdatedIsLatest ==
  (Resolved /\ ~IsSet(pre.updated)) =>
    /\ AllUndated => result.updated = Some(Null)
    /\ DatedPositions # {} =>
         \E i \in DatedPositions :
           /\ \A j \in DatedPositions : TimeOf(EpisodeAt(i)) >= TimeOf(EpisodeAt(j))
           /\ result.updated = Some(Date(N(TimeOf(EpisodeAt(i)))))

\* C5 as stated: a text event in a pubDate element whose parent is a channel
\* element sets updated to that date, and nothing else (an episode's date,
\* the finalizer) replaces an updated field that is set.
ChannelPubDateText ==
  /\ ev.type = "text" /\ ev.name = "pubDate" /\ Trim(ev.text) # <<>>
  /\ Len(node) >= 2 /\ node[Len(node) - 1].name = "channel"

C5_AnyChannelDateKept ==
  [][ /\ ChannelPubDateText' =>
           result'.updated = Some(Date(DateParse(Trim(ev'.text))))
      /\ (~ChannelPubDateText' /\ IsSet(result.updated)) =>
           result'.updated = result.updated ]_vars

\* C5 (amended): when a channel element that is not the document's root
\* element carries a pubDate with non-blank text, updated is that channel
\* date: the text event sets it, and neither an episode's date nor the
\* finalizer replaces it, wherever the pubDate stands among the items.
NestedChannelPubDateText == ChannelPubDateText /\ Len(node) >= 3

C5_ChannelDateKept ==
  [][ /\ NestedChannelPubDateText' =>
           result'.updated = Some(Date(DateParse(Trim(ev'.text))))
      /\ (~NestedChannelPubDateText' /\ IsSet(result.updated)) =>
           result'.updated = result.updated ]_vars

C5_Witness ==
  /\ Resolved /\ IsSet(pre.updated) /\ result.updated = pre.updated
  /\ ~IsNaN(Get(result.updated).time)
  /\ NumEpisodes >= 2
  /\ \A i \in 1..NumEpisodes :
       /\ HasTimestamp(EpisodeAt(i))
       /\ TimeOf(EpisodeAt(i)) > Get(result.updated).time.n

\* C6: the finalized categories are the duplicate-free set of the paths
\* collected during the parse, in ascending lexical order: none lost, none
\* twice, every adjacent pair strictly increasing.
Elements(seq) == { seq[i] : i \in 1..Len(seq) }

C6_CategoriesSortedSet ==
  Resolved =>
    LET out == Get(result.categories)
        raw == Get(pre.categories)
    IN /\ Elements(out) = Elements(raw)
       /\ \A i \in 1..(Len(out) - 1) : StringLess(out[i], out[i + 1])

C6_Witness ==
  /\ Resolved
  /\ Len(Get(pre.categories)) > Len(Get(result.categories))
  /\ Len(Get(result.categories)) >= 2
  /\ Get(result.categories) # uniq(Get(pre.categories))

\* C7: every record returned by a parse has a categories sequence, and it is
\* empty when the document has no category element (also without a channel
\* element, and for the empty input).
C7_CategoriesAlwaysSequence ==
  Resolved =>
    /\ IsSet(result.categories)
    /\ "itunes:category" \notin seen => Get(result.categories) = <<>>

C7_Witness ==
  /\ Resolved /\ nOpen > 0 /\ "channel" \notin seen
  /\ "itunes:category" \notin seen /\ result.categories = Some(<<>>)

\* the chain of itunes:category nodes that ends with the current node of n
ChainStart(n) ==
  CHOOSE k \in 1..Len(n) :
    /\ \A j \in k..Len(n) : n[j].name = "itunes:category"
    /\ k = 1 \/ n[k - 1].name # "itunes:category"
Chain(n) == SubSeq(n, ChainStart(n), Len(n))
HasLabel(nd) == Truthy(nd.attributes.text)
LabelOf(nd) == IF IsSet(nd.attributes.text) THEN Get(nd.attributes.text) ELSE <<>>
LabelsOf(nodes) == [i \in 1..Len(nodes) |-> LabelOf(nodes[i])]

LabelledCategoryOpened ==
  ev.type = "open" /\ ev.name = "itunes:category" /\ Truthy(ev.attributes.text)

\* C8 as stated: every itunes:category element with a non-empty label appends
\* the >-join of the label of each element of its chain, root first.
C8_JoinOfEveryLabel ==
  [][ (LabelledCategoryOpened' /\ nOpen' = nOpen + 1) =>
        Get(result'.categories) =
          Append(Get(result.categories),
                 Join(LabelsOf(Chain(node')), <<">">>)) ]_vars

\* C8 (amended): every itunes:category element with a non-empty label that is
\* not the document's root element appends the >-join, root first, of the
\* non-empty labels of its unbroken chain of itunes:category ancestors (an
\* ancestor with a missing or empty label is left out) followed by its own
\* label; a root itunes:category element appends nothing.
C8_JoinOfLabels ==
  [][ (LabelledCategoryOpened' /\ nOpen' = nOpen + 1) =>
        IF Len(node') = 1 THEN result'.categories = result.categories
        ELSE Get(result'.categories) =
               Append(Get(result.categories),
                      Join(LabelsOf(SelectSeq(Chain(node'), HasLabel)),
                           <<">">>)) ]_vars

C8_Witness ==
  /\ LabelledCategoryOpened /\ pc = "parsing"
  /\ Len(node) = 5
  /\ node[3].name = "itunes:category" /\ node[3].attributes.text = Some(<<"A">>)
  /\ node[4].name = "itunes:category" /\ ~HasLabel(node[4])
  /\ node[5].attributes.text = Some(<<"B">>)
  /\ Get(result.categories)[Len(Get(result.categories))] = <<"A", ">", "B">>

\* C9: opening a category element whose label attribute is missing or empty
\* appends no string to the feed's category list.
UnlabelledCategoryOpened ==
  ev.type = "open" /\ ev.name = "itunes:category" /\ ~Truthy(ev.attributes.text)

C9_EmptyLabelContributesNothing ==
  [][ (UnlabelledCategoryOpened' /\ nOpen' = nOpen + 1) =>
        result'.categories = result.categories ]_vars

C9_Witness ==
  /\ UnlabelledCategoryOpened /\ ev.attributes.text = Some(<<>>)
  /\ Len(node) >= 4 /\ HasLabel(node[Len(node) - 1])
  /\ Len(Get(result.categories)) = 1

\* C10: for a text of one to three colon-separated tokens parseTime returns
\* the sum of the tokens' integer values times 1, 60 and 3600, counted from
\* the last token; a token that does not parse as an integer counts zero and
\* the other tokens still count; the empty text gives 0.
TokenValue(tok) == IF IsNaN(ParseInt(tok)) THEN 0 ELSE ParseInt(tok).n
Weights == <<1, 60, 3600>>
RECURSIVE WeightedSum(_, _)
WeightedSum(tokens, k) ==
  IF k > Len(tokens) THEN 0
  ELSE TokenValue(tokens[Len(tokens) + 1 - k]) * Weights[k]
         + WeightedSum(tokens, k + 1)

C10_DurationIsWeightedSum ==
  (pc = "timeDone" /\ Len(Split(timeIn, ":")) <= 3) =>
    timeOut = N(WeightedSum(Split(timeIn, ":"), 1))

C10_Witness ==
  /\ pc = "timeDone"
  /\ timeIn = <<"a", ":", "2", ":", "1">>
  /\ timeOut = N(121)

(***************************************************************************)
(* C11: for every input text the duration parser returns an integer that   *)
(* is at least 0 and never a not-a-number value.  parseTime keeps the sign *)
(* that parseInt reads ("-1" gives -1), and from the fifth token on the    *)
(* multiplier reads steps[3], which is undefined, so "1::::" gives NaN.    *)
(***************************************************************************)
C11_DurationNonNegativeInteger ==
  pc = "timeDone" => (~IsNaN(timeOut) /\ timeOut.n >= 0)

(***************************************************************************)
(* C12: once the parser has reported that the input is not well-formed,    *)
(* the parse ends rejected and the record under construction is never      *)
(* delivered.  An input that ends inside the root element is reported only *)
(* in close(), after which parser.onend still resolves with the record.    *)
(***************************************************************************)
C12_MalformedNeverDelivers ==
  IsSet(saxError) => (pc # "resolved" /\ ~IsSet(returned))

(***************************************************************************)
(* C13: a parse is rejected only when the parser has reported that the     *)
(* input is not well-formed; every well-formed document, whatever its      *)
(* element names and texts, yields a record.  A text inside a child named  *)
(* valueOf of a channel, item or owner element makes handleText throw.     *)
(***************************************************************************)
C13_WellFormedNeverRejected ==
  pc = "rejected" => IsSet(saxError)

FetchFailed == pc = "thrown" /\ IsSet(failure)
Mentions(message, url) == \E i \in 1..Len(message) : message[i] = url

(***************************************************************************)
(* C14: every fetch failure ends in exactly one thrown message and no      *)
(* record: the timeout message for a failure named TimeoutError, otherwise *)
(* the HTTP message with the status code for a failure that carries a      *)
(* response status code, otherwise the generic message with the cause's    *)
(* message.                                                                *)
(***************************************************************************)
C14_FetchFailureMessages ==
  IsSet(failure) =>
    /\ pc = "thrown" /\ ~IsSet(returned) /\ ~IsSet(rejection)
    /\ LET e == Get(failure) IN
       /\ e.name = "TimeoutError" =>
            thrown = Some(<<"Timeout fetching podcast feed: ", feedUrl>>)
       /\ (e.name # "TimeoutError" /\ IsSet(e.response)) =>
            thrown = Some(<<"Failed to fetch podcast (HTTP ",
                           ToString(Get(Get(e.response).statusCode)),
                           "): ", feedUrl>>)
       /\ (e.name # "TimeoutError" /\ ~IsSet(e.response)) =>
            thrown = Some(<<"Failed to fetch podcast: ">> \o e.message)

C14_Witness ==
  /\ FetchFailed
  /\ Get(failure).name = "TimeoutError" /\ IsSet(Get(failure).response)
  /\ thrown = Some(<<"Timeout fetching podcast feed: ", feedUrl>>)

(***************************************************************************)
(* C15: the error thrown for a fetch failure, be it a timeout, an HTTP     *)
(* status or any other failure, carries the feed URL.  The generic message *)
(* is put together from the cause's message alone.                         *)
(***************************************************************************)
C15_FetchFailureCarriesUrl ==
  FetchFailed => Mentions(Get(thrown), feedUrl)

(***************************************************************************)
(* C16: when the fetch succeeded and the parse rejected, getPodcast throws *)
(* the parse failure, message Failed to parse podcast feed: <cause>, not   *)
(* one of the fetch failure messages.  The catch block wraps it in the     *)
(* generic fetch failure.                                                  *)
(***************************************************************************)
C16_ParseFailureSurfaced ==
  (pc = "thrown" /\ IsSet(rejection)) =>
    thrown = Some(Get(rejection).message)

(***************************************************************************)
(* C17: the record getPodcast returns has its feed field equal to the URL  *)
(* passed in and every other field as parse resolved it.                   *)
(***************************************************************************)
C17_FeedStamped ==
  pc = "returned" =>
    /\ IsSet(returned)
    /\ Get(returned).feed = Some(feedUrl)
    /\ \A f \in DOMAIN result \ {"feed"} : Get(returned)[f] = result[f]
    /\ DOMAIN Get(returned) = DOMAIN result

C17_Witness ==
  /\ pc = "returned"
  /\ feedUrl = "https://b.example/feed.xml"
  /\ IsSet(result.title) /\ ~IsSet(result.feed)
  /\ Get(returned).feed = Some("https://b.example/feed.xml")

\* an enclosure element has just been opened inside an episode
EnclosureOpened ==
  /\ pc = "parsing" /\ ev.type = "open" /\ ev.name = "enclosure"
  /\ tmpEpisode # 0
CurrentEnclosure == Get(episodeObjs[tmpEpisode].enclosure)
IsInteger(num) == ~IsNaN(num)

(***************************************************************************)
(* C18: an enclosure element sets the current episode's enclosure to the   *)
(* element's url, type and length: url and type are the attributes (absent *)
(* when the attribute is absent), filesize is unset when length is absent  *)
(* and the integer parsed from length when it is present; it is never      *)
(* zero for an absent length.                                              *)
(***************************************************************************)
C18_EnclosureFromAttributes ==
  EnclosureOpened =>
    /\ IsSet(episodeObjs[tmpEpisode].enclosure)
    /\ CurrentEnclosure.url = ev.attributes.url
    /\ CurrentEnclosure.type = ev.attributes.type
    /\ ~IsSet(ev.attributes.length) => ~IsSet(CurrentEnclosure.filesize)
    /\ IsSet(ev.attributes.length) =>
         /\ IsSet(CurrentEnclosure.filesize)
         /\ IsInteger(Get(CurrentEnclosure.filesize))
         /\ Get(CurrentEnclosure.filesize)
              = ParseInt(Get(ev.attributes.length))

(***************************************************************************)
(* C19: the numeric fields of the record are integers whenever they are    *)
(* set: neither the feed's ttl nor the filesize of an episode's enclosure  *)
(* is ever a not-a-number value.                                           *)
(***************************************************************************)
C19_NumericFieldsAreIntegers ==
  /\ IsSet(result.ttl) => IsInteger(Get(result.ttl))
  /\ \A i \in 1..Len(episodeObjs) :
       (IsSet(episodeObjs[i].enclosure)
          /\ IsSet(Get(episodeObjs[i].enclosure).filesize))
         => IsInteger(Get(Get(episodeObjs[i].enclosure).filesize))

ChaptersOf(objs, e) ==
  IF IsSet(objs[e].chapters) THEN Get(objs[e].chapters) ELSE <<>>

\* what the step that opens a psc:chapter element does to the chapters of
\* the episode under construction, the attributes that satisfy Present
\* being the ones that count as present
ChapterStep(Present(_)) ==
  (pc = "parsing" /\ nOpen' = nOpen + 1 /\ ev'.name = "psc:chapter") =>
    IF tmpEpisode = 0
      THEN episodeObjs' = episodeObjs /\ result' = result
      ELSE
        LET a == ev'.attributes
            before == ChaptersOf(episodeObjs, tmpEpisode)
            after == ChaptersOf(episodeObjs', tmpEpisode)
        IN IF Present(a.start) /\ Present(a.title)
             THEN /\ Len(after) = Len(before) + 1
                  /\ SubSeq(after, 1, Len(before)) = before
                  /\ after[Len(after)].title = Get(a.title)
             ELSE after = before

TextStep == pc = "parsing" /\ ev.type # "text" /\ ev'.type = "text"
Pnext == [node |-> node', result |-> result', tmpEpisode |-> tmpEpisode',
          episodeObjs |-> episodeObjs', ownerObjs |-> ownerObjs']
Context == node[Len(node) - 1]
HasTable(nd) == nd.textMap # "none" /\ nd.target.kind # "none"
Entry ==
  IF Len(node) >= 2 /\ HasTable(Context)
    THEN TextMapEntry(Context.textMap, TopName)
    ELSE NoEntry
Before(key) == ReadTarget(P, Context.target, key)
After(key) == ReadTarget(Pnext, Context.target, key)

C22_TransformNotOverwritten ==
  [][(TextStep /\ Entry.kind = "fn" /\ Trim(ev'.text) # <<>>
        /\ IsSet(Before(Entry.key))) =>
       After(Entry.key) = Before(Entry.key)]_vars

(***************************************************************************)
(* C22: the accumulate behaviour applies to copy-as-is and rename entries  *)
(* only; for a transform entry the value derived from the text of a later  *)
(* element replaces the value derived from an earlier one.                 *)
(***************************************************************************)
C22_TransformReplaces ==
  [][(TextStep /\ Entry.kind = "fn" /\ Trim(ev'.text) # <<>>) =>
       After(Entry.key) = FnValue(Entry.key, Trim(ev'.text))]_vars

C22_Witness ==
  /\ pc = "parsing" /\ ev.type = "text" /\ ev.name = "ttl"
  /\ ev.text = <<"7">> /\ nOpen = 4 /\ seen = {"rss", "channel", "ttl"}
  /\ result.ttl = Some(N(7))

Committed == IF IsSet(result.episodes) THEN Get(result.episodes) ELSE <<>>
CommittedNext ==
  IF IsSet(result'.episodes) THEN Get(result'.episodes) ELSE <<>>
OpenStep == pc = "parsing" /\ nOpen' = nOpen + 1
CloseStep == pc = "parsing" /\ nClose' = nClose + 1
\* the current element is the item element that created the episode under
\* construction
TopCreatedEpisode ==
  /\ node # <<>> /\ tmpEpisode # 0
  /\ node[Len(node)].target = EpisodeTarget(tmpEpisode)

(***************************************************************************)
(* C23: an episode is committed when, and only when, the item element that *)
(* created it closes.  Opening an item under a channel sets the current    *)
(* episode, which is not in the episode list; every event other than the   *)
(* close of that element leaves the current episode set and the list as it *)
(* is; the close of that element appends the episode and clears the        *)
(* reference.  handleCloseTag commits at the close of any element named    *)
(* item, also of one nested inside the creating element.                   *)
(***************************************************************************)
C23_CommittedAtOwnClose ==
  [][/\ (OpenStep /\ ev'.name = "item" /\ TopName = "channel") =>
          (tmpEpisode' # 0 /\ \A i \in 1..Len(CommittedNext) :
                                 CommittedNext[i] # tmpEpisode')
     /\ (pc = "parsing" /\ pc' = "parsing" /\ tmpEpisode # 0
           /\ ~(CloseStep /\ TopCreatedEpisode)
           /\ ~(OpenStep /\ ev'.name = "item" /\ TopName = "channel")) =>
          (tmpEpisode' = tmpEpisode /\ CommittedNext = Committed)
     /\ (CloseStep /\ TopCreatedEpisode) =>
          (tmpEpisode' = 0 /\ CommittedNext = Append(Committed, tmpEpisode))
    ]_vars

(***************************************************************************)
(* C24: the record is finalized once, at the end of the document, and      *)
(* handed over only afterwards.  The parse resolves only in the step of    *)
(* the end event, with an outcome of finalizePodcast applied to the record *)
(* as the handlers left it; once the parse is over the record is not       *)
(* rebuilt; the caller receives a record only from a resolved parse, and   *)
(* it is that finalized record (stamped with the URL).                     *)
(***************************************************************************)
C24_FinalizedOnceAtEnd ==
  [][/\ (pc' = "resolved" /\ pc # "resolved") =>
          /\ pc = "parsing" /\ ev'.type = "end"
          /\ pre' = result
          /\ result' \in finalizePodcast(P)
     /\ pc # "parsing" => (result' = result /\ pre' = pre)
     /\ pc = "parsing" => pre' \in {pre, result}
     /\ returned' # returned =>
          /\ pc = "resolved" /\ ~IsSet(returned)
          /\ returned' = Some(Stamp(result, feedUrl))
     /\ pc' \in {"fetching", "parsing", "rejected"} => ~IsSet(returned')
    ]_vars

C24_Witness ==
  /\ pc = "returned" /\ IsSet(returned)
  /\ "itunes:category" \in seen /\ "item" \in seen
  /\ pre.categories # result.categories
  /\ Get(returned).categories = result.categories

(***************************************************************************)
(* C25: the chain of open nodes is as long as the current element nesting  *)
(* depth, the number of open events less the number of close events, after *)
(* every event; and handleCloseTag called with no open node leaves the     *)
(* chain empty.                                                            *)
(***************************************************************************)
C25_DepthIsNesting ==
  /\ Len(node) = nOpen - nClose
  /\ \A name \in {"item", "channel", "title"} :
       handleCloseTag([P EXCEPT !.node = <<>>], name).node = <<>>

C25_Witness ==
  /\ pc = "parsing" /\ nOpen = 5 /\ nClose = 2 /\ Len(node) = 3
  /\ ev.type = "close"

\* the call that receives the events of log and no others
ApplyEvent(Q, e) ==
  CASE e.type = "open" -> handleOpenTag(Q, e.name, e.attributes)
    [] e.type = "text" -> handleText(Q, e.text)
    [] e.type = "close" -> handleCloseTag(Q, e.name)
RECURSIVE RunAlone(_)
RunAlone(log) ==
  IF log = <<>> THEN NewParser
  ELSE ApplyEvent(RunAlone(SubSeq(log, 1, Len(log) - 1)), log[Len(log)])

(***************************************************************************)
(* C26: in every interleaving of the events of two parse calls, each call  *)
(* is in the state, and resolves with the record, that it reaches when it  *)
(* receives its own events alone.                                          *)
(***************************************************************************)
C26_CallsIndependent ==
  pc = "pair" =>
    \A i \in 1..2 :
      /\ pair.runs[i].P = RunAlone(pair.runs[i].log)
      /\ pair.runs[i].pc = "resolved" =>
           pair.runs[i].out
             = finalizeIn(pair.engine, RunAlone(pair.runs[i].log))

C26_Witness ==
  /\ pc = "pair"
  /\ pair.runs[1].pc = "resolved" /\ pair.runs[2].pc = "resolved"
  /\ pair.runs[1].log # pair.runs[2].log
  /\ Len(pair.runs[1].P.episodeObjs) = 2
  /\ Len(pair.runs[2].P.episodeObjs) = 1
  /\ pair.runs[1].out.updated # pair.runs[2].out.updated

FrameFields ==
  {"title", "link", "language", "subtitle", "summary", "description",
   "author", "ttl", "image", "owner", "feed"}
Values(seq) == { seq[i] : i \in 1..Len(seq) }
Count(seq, x) == Cardinality({ i \in 1..Len(seq) : seq[i] = x })
Permutation(a, b) ==
  /\ Len(a) = Len(b)
  /\ \A x \in Values(a) \cup Values(b) : Count(a, x) = Count(b, x)

C28_FinalizationNeverFails ==
  pc = "parsing" =>
    /\ finalizePodcast(P) # {}
    /\ IsSet(result.episodes) =>
         \A id \in Values(Get(result.episodes)) : id \in DOMAIN episodeObjs
    /\ \A r \in finalizePodcast(P) :
         /\ \A f \in FrameFields : r[f] = result[f]
         /\ IF IsSet(result.episodes)
              THEN /\ IsSet(r.episodes)
                   /\ Permutation(Get(r.episodes), Get(result.episodes))
              ELSE ~IsSet(r.episodes)
         /\ IF IsSet(result.updated) THEN r.updated = result.updated
            ELSE \/ r.updated = Some(Null)
                 \/ \E id \in Values(Committed) :
                      r.updated = episodeObjs[id].published
         /\ IsSet(r.categories)
         /\ Values(Get(r.categories)) = Values(Get(result.categories))

C28_Witness ==
  /\ pc = "resolved"
  /\ ev.type = "end"
  /\ ~IsSet(saxError)
  /\ Len(episodeObjs) = 3
  /\ IsSet(result.episodes)
  /\ Len(Get(result.episodes)) = 3
  /\ \E i, j, k \in 1..3 :
       /\ ~IsSet(episodeObjs[i].published)
       /\ IsSet(episodeObjs[j].published)
       /\ IsNaN(Get(episodeObjs[j].published).time)
       /\ IsSet(episodeObjs[k].published)
       /\ ~IsNaN(Get(episodeObjs[k].published).time)
  /\ Get(pre.categories) = <<<<"B">>, <<"A">>>>
  /\ Get(result.categories) = <<<<"A">>, <<"B">>>>

ImageStep == OpenStep /\ ev'.name = "itunes:image"
EpisodeImages(objs) == [i \in 1..Len(objs) |-> objs[i].image]

(***************************************************************************)
(* C29 as stated: an image element changes an image field only when it is  *)
(* a child of the channel element or a child of the item element that      *)
(* created the episode, and only if its href attribute is present.         *)
(***************************************************************************)
C29_ImageOnlyFromDirectChild ==
  [][(ImageStep /\ (\/ result'.image # result.image
                    \/ EpisodeImages(episodeObjs')
                         # EpisodeImages(episodeObjs))) =>
       /\ IsSet(ev'.attributes.href)
       /\ TopName = "channel" \/ TopCreatedEpisode]_vars

(***************************************************************************)
(* C29: an image element that is a child of a channel element copies a     *)
(* non-empty href into the image of the feed; any other image element that *)
(* opens while an episode is under construction, at any depth below the    *)
(* item element, copies a non-empty href into the image of that episode;   *)
(* every other image element, and every image element whose href is absent *)
(* or empty, changes no image field.                                       *)
(***************************************************************************)
C29_ImageTargets ==
  [][ImageStep =>
       LET href == ev'.attributes.href
           copied == IsSet(href) /\ Get(href) # <<>>
       IN
       IF node # <<>> /\ TopName = "channel"
         THEN /\ result'.image = IF copied THEN href ELSE result.image
              /\ EpisodeImages(episodeObjs') = EpisodeImages(episodeObjs)
       ELSE IF node # <<>> /\ tmpEpisode # 0
         THEN /\ result'.image = result.image
              /\ EpisodeImages(episodeObjs')
                   = [EpisodeImages(episodeObjs) EXCEPT
                        ![tmpEpisode] = IF copied THEN href ELSE @]
       ELSE /\ result'.image = result.image
            /\ EpisodeImages(episodeObjs') = EpisodeImages(episodeObjs)]_vars

\* an image two levels below the item element has set the episode image
C29_Witness ==
  /\ pc = "parsing" /\ ev.type = "open" /\ ev.name = "itunes:image"
  /\ Len(node) = 5 /\ node[3].name = "item" /\ node[4].name = "div"
  /\ tmpEpisode = 1
  /\ episodeObjs[1].image = Some(<<"B">>)
  /\ ~IsSet(result.image)

\* a text that is not the content of a child of a context: the element it
\* is in is itself a context, or its parent carries no dispatch table
OffTableText ==
  /\ TextStep
  /\ node # <<>>
  /\ \/ Len(node) < 2
     \/ ~HasTable(Context)
     \/ HasTable(node[Len(node)])

(***************************************************************************)
(* C30 as stated: text directly inside a context element, and text one or  *)
(* more levels below a child of a context, changes no field of any target. *)
(***************************************************************************)
C30_OffTableTextInert ==
  [][OffTableText =>
       /\ result' = result
       /\ ownerObjs' = ownerObjs
       /\ episodeObjs' = episodeObjs]_vars

(***************************************************************************)
(* C30: text directly inside a context element, and text one or more       *)
(* levels below a child of a context, is not dispatched through a table:   *)
(* it changes no field of the feed or of an owner, and no field of an      *)
(* episode but one, the category list of the episode under construction,   *)
(* to which the trimmed text of an element named category is appended at   *)
(* any depth.                                                              *)
(***************************************************************************)
C30_OffTableTextOnlyCategory ==
  [][OffTableText =>
       /\ result' = result
       /\ ownerObjs' = ownerObjs
       /\ episodeObjs' =
            IF tmpEpisode # 0 /\ TopName = "category"
                 /\ Trim(ev'.text) # <<>>
              THEN [episodeObjs EXCEPT ![tmpEpisode].categories =
                      Some(Append(IF IsSet(@) THEN Get(@) ELSE <<>>,
                                  Trim(ev'.text)))]
              ELSE episodeObjs]_vars

\* the text of a category element two levels below the item element is in
\* the category list of the episode
C30_Witness ==
  /\ pc = "parsing" /\ ev.type = "text" /\ ev.name = "category"
  /\ Len(node) = 5 /\ node[3].name = "item" /\ node[4].name = "div"
  /\ tmpEpisode = 1
  /\ episodeObjs[1].categories = Some(<<<<"a">>>>)

\* a stored text is non-empty and has no white space at either end
Trimmed(o) == IsSet(o) => (Get(o) # <<>> /\ Trim(Get(o)) = Get(o))
StoredTextsTrimmed ==
  /\ \A f \in {"title", "link", "subtitle", "summary", "description",
                "author"} : Trimmed(result[f])
  /\ \A i \in 1..Len(ownerObjs) :
       Trimmed(ownerObjs[i].name) /\ Trimmed(ownerObjs[i].email)
  /\ \A i \in 1..Len(episodeObjs) :
       /\ \A f \in {"title", "subtitle", "guid", "description", "summary",
                     "content"} : Trimmed(episodeObjs[i][f])
       /\ IsSet(episodeObjs[i].categories) =>
            \A k \in 1..Len(Get(episodeObjs[i].categories)) :
              Trimmed(Some(Get(episodeObjs[i].categories)[k]))

(***************************************************************************)
(* C31: a text that is empty after trimming changes neither the feed       *)
(* record, nor the episode under construction, nor the chain of open       *)
(* elements, and every text value stored is a trimmed, non-empty text.     *)
(***************************************************************************)
C31_BlankTextIgnored ==
  [][TextStep =>
       /\ Trim(ev'.text) = <<>> =>
            /\ node' = node /\ result' = result
            /\ tmpEpisode' = tmpEpisode /\ episodeObjs' = episodeObjs
            /\ ownerObjs' = ownerObjs /\ pc' = pc
       /\ StoredTextsTrimmed']_vars

\* a blank title text inside an item, after a feed title stored trimmed
C31_Witness ==
  /\ pc = "parsing" /\ ev.type = "text" /\ ev.name = "title"
  /\ ev.text = <<"\n", " ">>
  /\ tmpEpisode = 1 /\ ~IsSet(episodeObjs[1].title)
  /\ result.title = Some(<<"b">>)

(***************************************************************************)
(* C32: get(feedUrl, callback) of index.js has invoked the callback        *)
(* exactly once when the request is over: with an error when the network   *)
(* request or the parse failed, with (null, record) otherwise.             *)
(***************************************************************************)
C32_CallbackExactlyOnce ==
  legacy.pc = "done" =>
    /\ Len(legacy.calls) = 1
    /\ legacy.calls[1].err = (legacy.logged # <<>>)
    /\ legacy.calls[1].data = (legacy.logged = <<>>)

\* the owner element that opens is a child of a channel element
OwnerOpens ==
  /\ OpenStep /\ ev'.name = "itunes:owner"
  /\ node # <<>> /\ TopName = "channel"
\* the text is the content of a name or email child of an owner element
OwnerFieldText ==
  /\ TextStep /\ Len(node) >= 2 /\ Trim(ev'.text) # <<>>
  /\ Context.target.kind = "owner"
  /\ TopName \in {"itunes:name", "itunes:email"}

ItemOpen(e) == \E i \in 1..Len(node) : node[i].target = EpisodeTarget(e)
CategoryText ==
  TextStep /\ TopName = "category" /\ Trim(ev'.text) # <<>>

(***************************************************************************)
(* C34: the category list of an episode is the sequence of the trimmed     *)
(* non-empty texts of the category elements met while the item element of  *)
(* the episode was open: each such text is appended, repeated or not, and  *)
(* nothing else changes the list.                                          *)
(***************************************************************************)
C34_CategoriesInEncounterOrder ==
  [][pc = "parsing" =>
       \A e \in 1..Len(episodeObjs) :
         episodeObjs'[e].categories =
           IF CategoryText /\ ItemOpen(e)
             THEN Some(Append(IF IsSet(episodeObjs[e].categories)
                                THEN Get(episodeObjs[e].categories)
                                ELSE <<>>,
                              Trim(ev'.text)))
             ELSE episodeObjs[e].categories]_vars

\* the characters of s before its first decimal point, all of s without one
RECURSIVE BeforePoint(_)
BeforePoint(s) ==
  IF s = <<>> \/ Head(s) = "." THEN <<>>
  ELSE <<Head(s)>> \o BeforePoint(Tail(s))

(***************************************************************************)
(* C35: the start of a retained chapter is the duration parser applied to  *)
(* the part of the start attribute before its first decimal point.         *)
(***************************************************************************)
C35_ChapterStartTruncated ==
  [][(/\ pc = "parsing" /\ nOpen' = nOpen + 1 /\ ev'.name = "psc:chapter"
      /\ tmpEpisode # 0
      /\ Len(ChaptersOf(episodeObjs', tmpEpisode))
           > Len(ChaptersOf(episodeObjs, tmpEpisode))) =>
       LET chapters == ChaptersOf(episodeObjs', tmpEpisode) IN
       chapters[Len(chapters)].start
         = parseTime(BeforePoint(Get(ev'.attributes.start)))]_vars

\* 1:2.5 gives 62 and 1.5:2 gives 1
C35_Witness ==
  /\ pc = "parsing" /\ ev.type = "open" /\ ev.name = "psc:chapter"
  /\ tmpEpisode # 0
  /\ ev.attributes.start = Some(<<"1", ".", "5", ":", "2">>)
  /\ Len(ChaptersOf(episodeObjs, tmpEpisode)) = 2
  /\ ChaptersOf(episodeObjs, tmpEpisode)[1].start = N(62)
  /\ ChaptersOf(episodeObjs, tmpEpisode)[2].start = N(1)

\* the nest of category elements that ends with the open element j: where
\* it starts, whether all its labels are non-empty, and its path
NestStart(j) ==
  CHOOSE i \in 1..j :
    /\ \A m \in i..j : node[m].name = "itunes:category"
    /\ i = 1 \/ node[i - 1].name # "itunes:category"
NestLabelled(j) == \A m \in NestStart(j)..j : HasLabel(node[m])
NestPath(j) ==
  Join([m \in 1..(j - NestStart(j) + 1) |->
          Get(node[NestStart(j) + m - 1].attributes.text)], <<">">>)
Contributed(j) ==
  \E k \in 1..Len(Get(result.categories)) :
    Get(result.categories)[k] = NestPath(j)

(***************************************************************************)
(* C36 as stated: every open category element of a nest with non-empty     *)
(* labels has contributed its path, one entry per prefix of the nest.      *)
(***************************************************************************)
C36_EntryPerPrefix ==
  pc = "parsing" =>
    \A j \in 1..Len(node) :
      (node[j].name = "itunes:category" /\ NestLabelled(j)) => Contributed(j)

(***************************************************************************)
(* C36: every open category element of a nest with non-empty labels, the   *)
(* root element of the document excepted, has contributed its path, one    *)
(* entry per prefix of the nest; a category element that is the root of    *)
(* the document contributes nothing, its label being part of the paths of  *)
(* the elements inside it.                                                 *)
(***************************************************************************)
C36_EntryPerPrefixBelowRoot ==
  pc = "parsing" =>
    /\ \A j \in 2..Len(node) :
         (node[j].name = "itunes:category" /\ NestLabelled(j))
           => Contributed(j)
    /\ (Len(node) = 1 /\ nOpen = 1) => Get(result.categories) = <<>>

C36_Witness ==
  /\ pc = "parsing" /\ ev.type = "open"
  /\ Len(node) = 5 /\ node[2].name = "channel"
  /\ \A j \in 3..5 : node[j].name = "itunes:category"
  /\ Get(result.categories)
       = << <<"A">>, <<"A", ">", "B">>, <<"A", ">", "B", ">", "A">> >>

\* the item elements opened so far whose parent is a channel element: each
\* of them, and nothing else, has created one episode object
ChannelItems == Len(episodeObjs)

(***************************************************************************)
(* C37: the record returned for a well-formed document has as many         *)
(* episodes as the document has item elements whose parent is a channel    *)
(* element, each of them once, and no episodes field when there is none.   *)
(***************************************************************************)
C37_EpisodePerChannelItem ==
  (pc = "resolved" /\ ~IsSet(saxError)) =>
    IF ChannelItems = 0 THEN ~IsSet(result.episodes)
    ELSE /\ IsSet(result.episodes)
         /\ Permutation(Get(result.episodes),
                        [i \in 1..ChannelItems |-> i])

\* the episode of the innermost open item element that created one, 0
\* outside every such element
RECURSIVE InnermostEpisode(_)
InnermostEpisode(n) ==
  IF n = <<>> THEN 0
  ELSE IF n[Len(n)].target.kind = "episode" THEN n[Len(n)].target.id
  ELSE InnermostEpisode(SubSeq(n, 1, Len(n) - 1))

(***************************************************************************)
(* C38: an enclosure, a chapter with start and title, an image with an     *)
(* href, and the text of a category element, met while an item element     *)
(* that created an episode is open, are recorded on that episode, whatever *)
(* came before inside the item.                                            *)
(***************************************************************************)
C38_RecordedOnOpenItem ==
  [][(pc = "parsing" /\ InnermostEpisode(node) # 0) =>
       LET e == InnermostEpisode(node) IN
       /\ (OpenStep /\ ev'.name = "enclosure") =>
            episodeObjs'[e].enclosure = Some(MakeEnclosure(ev'.attributes))
       /\ (OpenStep /\ ev'.name = "psc:chapter"
             /\ Truthy(ev'.attributes.start)
             /\ Truthy(ev'.attributes.title)) =>
            ChaptersOf(episodeObjs', e)
              = Append(ChaptersOf(episodeObjs, e),
                       MakeChapter(ev'.attributes))
       /\ (ImageStep /\ Truthy(ev'.attributes.href)) =>
            episodeObjs'[e].image = ev'.attributes.href
       /\ CategoryText =>
            episodeObjs'[e].categories =
              Some(Append(IF IsSet(episodeObjs[e].categories)
                            THEN Get(episodeObjs[e].categories)
                            ELSE <<>>,
                          Trim(ev'.text)))]_vars

\* the step closes the innermost open item element that created an episode
CreatorCloses ==
  CloseStep /\ node # <<>> /\ node[Len(node)].target.kind = "episode"

(***************************************************************************)
(* C39: while an item element that created an episode is open, no open,    *)
(* text or close event changes a field of the feed record or the owner of  *)
(* the feed, until the close of that item element commits the episode.     *)
(***************************************************************************)
C39_FeedUntouchedInsideItem ==
  [][((OpenStep \/ TextStep \/ CloseStep)
      /\ InnermostEpisode(node) # 0 /\ ~CreatorCloses) =>
       /\ result' = result
       /\ ownerObjs' = ownerObjs]_vars

\* text in a child of a context element whose name is no key of the table
\* the context declares, the category text of an episode apart
UndeclaredChildText ==
  /\ TextStep
  /\ Len(node) >= 2
  /\ HasTable(Context)
  /\ OwnTextMapEntry(Context.textMap, TopName) = NoEntry
  /\ ~(tmpEpisode # 0 /\ TopName = "category")

(***************************************************************************)
(* C40: text inside a child element whose name is not declared in the      *)
(* table of its parent context, and is not the category text of an         *)
(* episode, changes no field of the feed, of an episode or of an owner and *)
(* does not end the parse, whatever the name of the element is.            *)
(***************************************************************************)
C40_UndeclaredChildTextInert ==
  [][UndeclaredChildText =>
       /\ result' = result
       /\ episodeObjs' = episodeObjs
       /\ ownerObjs' = ownerObjs
       /\ pc' = "parsing"]_vars

====
